---- MODULE Spec2Model ----
(***************************************************************************)
(* Model of the expense manager's AI reclassification engine               *)
(* (lib/reclassify.js) and of the storage side of apply/undo               *)
(* (lib/storage.js).                                                       *)
(*                                                                         *)
(* Representation of JavaScript values:                                    *)
(*   - a date string 'YYYY-MM-DD' is its day number (a positive integer);  *)
(*     for zero-padded ISO dates String.localeCompare orders as the day    *)
(*     numbers do and (new Date(b) - new Date(a)) / 86400000 is b - a;     *)
(*   - an absent date, which the code reads as '' (e.date ?? ''), is       *)
(*     NoDate; '' sorts before every date, is falsy, and new Date('') is   *)
(*     an invalid date whose differences are NaN;                          *)
(*   - a confidence is an integer number of hundredths (0.75 is 75).       *)
(***************************************************************************)
EXTENDS Integers, Sequences, FiniteSets, TLC

VARIABLES
  \* chunkByDays called on its own
  cbInput,        \* the expenses argument
  cbDaySize,      \* the daySize argument
  cbResult,       \* the returned batches
  cbPc,           \* "call" before the call, "returned" after it
  \* runReclassification
  expenses,       \* the expenses argument
  model,          \* the model argument
  apiKey,         \* the apiKey argument ("" when absent)
  pc,             \* position in runReclassification
  i,              \* loop index (0-based, as in the code)
  batches,        \* const batches
  allChanges,     \* const allChanges
  allNewSubcategories,
  validated,      \* let validated (the last value callGeminiBatch returned)
  reply,          \* what the service did with the request in flight / last answered
  trace,          \* observable events so far: progress callbacks, timers,
                  \* requests sent and answers received
  result,         \* the settled promise: pending, resolved (with value) or rejected
  \* storage
  store,          \* the expense list persisted under KEY
  auditLog,       \* the log persisted under AUDIT_KEY
  opPc,           \* position of the storage operation in progress, or "idle"
  opChanges,      \* apply: the approvedChanges argument
  opMeta,         \* apply: the metadata argument
  opSnapshot,     \* apply: const snapshot; undo: the snapshot argument
  opNext,         \* apply: const updated; undo: const restored
  held,           \* what the last applyReclassification returned to its caller
  ops,            \* the operations completed so far, in order
  applied,        \* the ids the last apply's approved changes name
  preApply,       \* the persisted list when the last apply was called
  postApply,      \* the persisted list the last apply wrote
  \* callGeminiBatch called on its own
  callPc,         \* position in callGeminiBatch
  callModel,      \* the model argument
  callPayload,    \* the payload argument
  callTimer,      \* the setTimeout timer: none, armed, cleared or fired
  callReply,      \* the index in Replies of the answer received, 0 for none
  callOutcome,    \* what the call returned or threw
  \* getScopedExpenses called on its own
  gsExpenses,     \* the expenses argument
  gsScope,        \* the scope argument: "all" or a number of days
  gsNow,          \* the clock and the time zone at the call
  gsResult,       \* the returned list
  gsPc,           \* "call" before the call, "returned" after it
  \* the request bodies of two runs
  payA,           \* the expenses of the first run
  payB,           \* the expenses of the second run
  payMode,        \* the mode argument of both runs
  payBodiesA,     \* the request bodies of the first run, one per batch
  payBodiesB,     \* the request bodies of the second run
  payPc,          \* "call" before the runs, "sent" after them
  \* the subcategory map
  subcategories,  \* the map persisted under SUBCATEGORIES_KEY
  subOps,         \* the addApprovedSubcategory calls completed so far
  \* POST /api/ai/extract
  exText,         \* req.body.text
  exKey,          \* the API key of the environment ("" when none is set)
  exReply,        \* what the model call does
  exPc,           \* position in the handler
  exStatus,       \* the HTTP status answered, 0 before the answer
  \* a storage mutation that overlaps applyReclassification
  mutPc,          \* position of the mutation
  mutKind,        \* which mutation, with its arguments
  mutLoaded,      \* what the mutation's load returned
  opLog           \* applyReclassification: the log its addAuditEvent loaded

cbVars  == <<cbInput, cbDaySize, cbResult, cbPc>>
runVars == <<expenses, model, apiKey, pc, i, batches, allChanges,
             allNewSubcategories, validated, reply, trace, result>>
stVars  == <<store, auditLog, opPc, opChanges, opMeta, opSnapshot, opNext,
             held, ops, applied, preApply, postApply>>
callVars == <<callPc, callModel, callPayload, callTimer, callReply, callOutcome>>
scopeVars == <<gsExpenses, gsScope, gsNow, gsResult, gsPc>>
payVars  == <<payA, payB, payMode, payBodiesA, payBodiesB, payPc>>
subVars  == <<subcategories, subOps>>
exVars   == <<exText, exKey, exReply, exPc, exStatus>>
mutVars  == <<mutPc, mutKind, mutLoaded, opLog>>
vars    == <<cbVars, runVars, stVars, callVars, scopeVars, payVars, subVars,
             exVars, mutVars>>

----------------------------------------------------------------------------
\* Bounds of the model
MaxLen == 3          \* longest expense list given to chunkByDays on its own
MaxDay == 3          \* dates 1..MaxDay, plus two far dates, plus the absent date
MaxRunLen == 3       \* longest expense list given to runReclassification
MaxStore == 3        \* most records in the initial persisted list
MaxChanges == 2      \* longest approvedChanges list
MaxOps == 2          \* storage operations per behaviour

\* Program constants
CONFIDENCE_THRESHOLD == 75
BATCH_DAYS == 10
BATCH_DELAY_MS == 1500
RETRY_DELAY_MS == 1000

CATEGORIES ==
  <<"Food", "Transport", "Utilities", "Entertainment", "Shopping", "Health", "Other">>

\* MODEL_FALLBACK[model]; Undefined for a model name that is no key of the table
Undefined == "<undefined>"
MODEL_FALLBACK(m) ==
  CASE m = "gemini-2.5-flash-lite" -> "gemini-2.5-flash"
    [] m = "gemini-2.5-flash"      -> "gemini-2.5-flash-lite"
    [] OTHER                       -> Undefined

----------------------------------------------------------------------------
\* Dates
NoDate   == 0        \* e.date ?? '' of an expense without a date
NullDate == -1       \* let batchStartDate = null
FarDay   == MaxDay + BATCH_DAYS + 1
Dates    == {NoDate} \cup (1..MaxDay) \cup {FarDay, FarDay + BATCH_DAYS + 1}

\* !batchStartDate: null and '' are both falsy
Falsy(d) == d = NullDate \/ d = NoDate

\* a window that excludes the expense exactly daySize days after the anchor
DiffWithinExclusive(dateStr, batchStartDate, daySize) ==
  IF dateStr = NoDate \/ batchStartDate = NoDate
  THEN FALSE
  ELSE dateStr - batchStartDate < daySize

\* (new Date(dateStr) - new Date(batchStartDate)) / 86400000 <= daySize;
\* a difference with an invalid date is NaN, and NaN <= x is false
DiffWithin(dateStr, batchStartDate, daySize) ==
  IF dateStr = NoDate \/ batchStartDate = NoDate
  THEN FALSE
  ELSE dateStr - batchStartDate <= daySize

\* the ids of the expenses, by position in the argument list
IdOf(k) == <<"e1", "e2", "e3", "e4", "e5", "e6">>[k]

\* all expense lists of length <= n whose k-th expense has id IdOf(k)
ExpenseLists(n) ==
  UNION { { [k \in 1..len |-> [id |-> IdOf(k), date |-> ds[k]]] :
              ds \in [1..len -> Dates] } : len \in 0..n }

----------------------------------------------------------------------------
\* [...expenses].sort((a, b) => (a.date ?? '').localeCompare(b.date ?? ''))
\* Array.prototype.sort is stable: an insertion sort that places each element
\* after the elements that do not compare greater.
\* an insertion that places an element before the elements that compare equal
RECURSIVE InsertSortedBeforeEqual(_, _)
InsertSortedBeforeEqual(sorted, e) ==
  IF sorted = <<>> THEN <<e>>
  ELSE IF sorted[Len(sorted)].date < e.date
       THEN Append(sorted, e)
       ELSE Append(InsertSortedBeforeEqual(SubSeq(sorted, 1, Len(sorted) - 1), e),
                   sorted[Len(sorted)])

RECURSIVE InsertSorted(_, _)
InsertSorted(sorted, e) ==
  IF sorted = <<>> THEN <<e>>
  ELSE IF sorted[Len(sorted)].date <= e.date
       THEN Append(sorted, e)
       ELSE Append(InsertSorted(SubSeq(sorted, 1, Len(sorted) - 1), e),
                   sorted[Len(sorted)])

RECURSIVE SortByDate(_)
SortByDate(es) ==
  IF es = <<>> THEN <<>>
  ELSE InsertSorted(SortByDate(SubSeq(es, 1, Len(es) - 1)), es[Len(es)])

\* one iteration of the for loop of chunkByDays;
\* st = [batches, batchStartDate, currentBatch]
ChunkStep(st, expense, daySize) ==
  IF Falsy(st.batchStartDate)
  THEN [st EXCEPT !.batchStartDate = expense.date, !.currentBatch = <<expense>>]
  ELSE IF DiffWithin(expense.date, st.batchStartDate, daySize)
       THEN [st EXCEPT !.currentBatch = Append(st.currentBatch, expense)]
       ELSE [batches        |-> Append(st.batches, st.currentBatch),
             batchStartDate |-> expense.date,
             currentBatch   |-> <<expense>>]

RECURSIVE ChunkLoop(_, _, _, _)
ChunkLoop(st, sorted, k, daySize) ==
  IF k > Len(sorted) THEN st
  ELSE ChunkLoop(ChunkStep(st, sorted[k], daySize), sorted, k + 1, daySize)

chunkByDays(es, daySize) ==
  IF Len(es) = 0 THEN <<>>
  ELSE LET st == ChunkLoop([batches |-> <<>>, batchStartDate |-> NullDate,
                            currentBatch |-> <<>>],
                           SortByDate(es), 1, daySize)
       IN  IF Len(st.currentBatch) > 0
           THEN Append(st.batches, st.currentBatch)
           ELSE st.batches

----------------------------------------------------------------------------
\* The classifier service's answer to one request, as callGeminiBatch sees it:
\*   fetch    "resolved", "rejected" (network error) or "aborted" (AbortError)
\*   httpOk   res.ok
\*   parses   whether JSON.parse(raw) succeeds
\*   parsed   the value JSON.parse(raw) returns
\* A parsed value: kind is "object" for a JSON object, else "null", "number";
\* changesIsArray / subsIsArray are Array.isArray of the two properties.
\* A change entry carries typeof of the three validated properties.

Entry(tid, cat, conf) ==
  [tidT |-> "string", transaction_id |-> tid,
   catT |-> "string", new_category |-> cat,
   confT |-> "number", confidence |-> conf,
   new_subcategory |-> "Sub", new_description |-> "null"]

Object(changes, subs) ==
  [kind |-> "object", changesIsArray |-> TRUE, changes |-> changes,
   subsIsArray |-> TRUE, new_subcategories |-> subs]

NullValue == [Object(<<>>, <<>>) EXCEPT !.kind = "null",
                !.changesIsArray = FALSE, !.subsIsArray = FALSE]

Answer(parsed) ==
  [fetch |-> "resolved", httpOk |-> TRUE, parses |-> TRUE, parsed |-> parsed]

GoodEntry == Entry("e1", "Food", 90)

\* the answers the service is given to choose from
Replies ==
  << \* 1: confidences 0.5, 0.75, 0.9 and a proposed subcategory
     Answer(Object(<<Entry("e1", "Food", 50), Entry("e2", "Transport", 75),
                     Entry("e1", "Health", 90)>>, <<"Snacks">>)),
     \* 2: unknown category at confidence 1.0; an id that no expense has
     Answer(Object(<<Entry("e1", "Bogus", 100), Entry("zzz", "Food", 90)>>, <<>>)),
     \* 3..5: transport failure, timeout, HTTP error status
     [Answer(NullValue) EXCEPT !.fetch = "rejected"],
     [Answer(NullValue) EXCEPT !.fetch = "aborted"],
     [Answer(NullValue) EXCEPT !.httpOk = FALSE],
     \* 6: text that is no JSON
     [Answer(NullValue) EXCEPT !.parses = FALSE],
     \* 7, 8: JSON that is no object
     Answer(NullValue),
     Answer([NullValue EXCEPT !.kind = "number"]),
     \* 9, 10: an object without a changes list / a new_subcategories list
     Answer([Object(<<>>, <<"Snacks">>) EXCEPT !.changesIsArray = FALSE]),
     Answer([Object(<<GoodEntry>>, <<>>) EXCEPT !.subsIsArray = FALSE]),
     \* 11..13: one entry lacks a property, beside a well-formed entry
     Answer(Object(<<GoodEntry, [GoodEntry EXCEPT !.tidT = "undefined"]>>, <<"Snacks">>)),
     Answer(Object(<<GoodEntry, [GoodEntry EXCEPT !.catT = "number"]>>, <<"Snacks">>)),
     Answer(Object(<<[GoodEntry EXCEPT !.confT = "string"], GoodEntry>>, <<"Snacks">>)) >>

NoReply == [Answer(NullValue) EXCEPT !.fetch = "none"]

\* what a function returns or throws
Ok(v)   == [ok |-> TRUE,  value |-> v,         error |-> ""]
Err(m)  == [ok |-> FALSE, value |-> NullValue, error |-> m]

\* the for loop of validateResponse: the first entry that fails a typeof test
RECURSIVE EntryError(_, _)
EntryError(changes, k) ==
  IF k > Len(changes) THEN ""
  ELSE IF changes[k].tidT # "string"  THEN "Change missing transaction_id"
  ELSE IF changes[k].catT # "string"  THEN "Change missing new_category"
  ELSE IF changes[k].confT # "number" THEN "Change missing confidence"
  ELSE EntryError(changes, k + 1)

validateResponseLenient(parsed) ==
  IF parsed.kind # "object" THEN Err("AI returned non-object response")
  ELSE Ok([parsed EXCEPT !.changes =
             SelectSeq(parsed.changes, LAMBDA c : EntryError(<<c>>, 1) = "")])

validateResponse(parsed) ==
  IF parsed.kind # "object" THEN Err("AI returned non-object response")
  ELSE IF ~parsed.changesIsArray THEN Err("AI response missing changes array")
  ELSE IF ~parsed.subsIsArray THEN Err("AI response missing new_subcategories array")
  ELSE IF EntryError(parsed.changes, 1) # "" THEN Err(EntryError(parsed.changes, 1))
  ELSE Ok(parsed)

\* callGeminiBatch, from the point where the service has answered with r
callGeminiBatch(r) ==
  IF r.fetch = "aborted" THEN Err("Batch timed out after 15s. Try a smaller scope.")
  ELSE IF r.fetch = "rejected" THEN Err("fetch failed")
  ELSE IF ~r.httpOk THEN Err("Gemini API error")
  ELSE IF ~r.parses THEN Err("AI returned malformed JSON. Please try again.")
  ELSE validateResponse(r.parsed)

----------------------------------------------------------------------------
\* Storage (lib/storage.js).  A persisted record is a function from the names
\* of its properties to strings; Null is JavaScript's null, and a property a
\* record does not have reads as Undefined.

Null == "<null>"

Prop(o, f) == IF f \in DOMAIN o THEN o[f] ELSE Undefined

\* a ?? b
Coalesce(a, b) == IF a = Null \/ a = Undefined THEN b ELSE a

\* JSON.parse(JSON.stringify(list)): a property whose value is undefined is
\* not written
JsonRecord(e) == [f \in {g \in DOMAIN e : e[g] # Undefined} |-> e[f]]
Json(list) == [k \in 1..Len(list) |-> JsonRecord(list[k])]

\* new Set(list.map(.. => id)).has(id)
HasId(list, key, id) == \E k \in 1..Len(list) : list[k][key] = id

\* new Map(list.map(x => [x[key], x])).get(id): the last entry with that key
LastWith(list, key, id) ==
  list[CHOOSE k \in 1..Len(list) :
         /\ list[k][key] = id
         /\ \A j \in (k + 1)..Len(list) : list[j][key] # id]

\* a merge that writes original_prompt
MergedWritingPrompt(e, change) ==
  [f \in DOMAIN e \cup {"original_prompt"} |->
     IF f = "original_prompt" THEN "reclassified" ELSE e[f]]

\* the object literal of applyReclassification's map callback
Merged(e, change) ==
  [f \in DOMAIN e \cup {"category", "subcategory", "details", "normalized_merchant"} |->
     CASE f = "category" ->
            Coalesce(Prop(change, "new_category"), Prop(e, "category"))
       [] f = "subcategory" ->
            Coalesce(Coalesce(Prop(change, "new_subcategory"), Prop(e, "subcategory")), Null)
       [] f = "details" ->
            Coalesce(Prop(change, "new_description"), Prop(e, "details"))
       [] f = "normalized_merchant" ->
            Coalesce(Coalesce(Prop(change, "normalized_merchant"),
                              Prop(e, "normalized_merchant")), Null)
       [] OTHER -> e[f]]

\* an update that creates a record for a change whose id no record has
UpdatedOfCreating(es, approvedChanges) ==
  [k \in 1..Len(es) |->
     IF HasId(approvedChanges, "transaction_id", es[k].id)
     THEN Merged(es[k], LastWith(approvedChanges, "transaction_id", es[k].id))
     ELSE es[k]]
  \o [k \in 1..Len(SelectSeq(approvedChanges,
                             LAMBDA c : ~HasId(es, "id", c.transaction_id))) |->
        [id |-> SelectSeq(approvedChanges,
                          LAMBDA c : ~HasId(es, "id", c.transaction_id))[k].transaction_id]]

\* const updated = expenses.map(...)
UpdatedOf(es, approvedChanges) ==
  [k \in 1..Len(es) |->
     IF HasId(approvedChanges, "transaction_id", es[k].id)
     THEN Merged(es[k], LastWith(approvedChanges, "transaction_id", es[k].id))
     ELSE es[k]]

\* the snapshot taken from the merged list instead of the loaded one
SnapshotOfMerged(es, approvedChanges) ==
  SelectSeq(UpdatedOf(es, approvedChanges),
            LAMBDA e : HasId(approvedChanges, "transaction_id", e.id))

\* const snapshot = expenses.filter(e => affectedIds.has(e.id)).map(e => ({...e}))
SnapshotOf(es, approvedChanges) ==
  SelectSeq(es, LAMBDA e : HasId(approvedChanges, "transaction_id", e.id))

\* an undo that keeps the current record
RestoredOfNothing(es, snapshot) == es

\* an undo that puts back the snapshot entries whose records are gone
RestoredOfRecreating(es, snapshot) ==
  [k \in 1..Len(es) |->
     IF HasId(snapshot, "id", es[k].id)
     THEN LastWith(snapshot, "id", es[k].id)
     ELSE es[k]]
  \o SelectSeq(snapshot, LAMBDA e : ~HasId(es, "id", e.id))

\* const restored = expenses.map(e => snapshotMap.get(e.id) ?? e)
RestoredOf(es, snapshot) ==
  [k \in 1..Len(es) |->
     IF HasId(snapshot, "id", es[k].id)
     THEN LastWith(snapshot, "id", es[k].id)
     ELSE es[k]]

\* addAuditEvent: log.unshift(event); persist log.slice(0, 100)
AUDIT_CAP == 100
\* a log that puts the new event last and keeps the oldest AUDIT_CAP entries
AddAuditEventOldestKept(log, event) ==
  SubSeq(log \o <<event>>, 1, IF Len(log) + 1 > AUDIT_CAP THEN AUDIT_CAP ELSE Len(log) + 1)

AddAuditEvent(log, event) ==
  SubSeq(<<event>> \o log, 1, IF Len(log) + 1 > AUDIT_CAP THEN AUDIT_CAP ELSE Len(log) + 1)

AuditEvent(type, mode, scope, count, created) ==
  [type |-> type, mode |-> mode, scope |-> scope, count |-> count,
   subcategoriesCreated |-> created]

\* the records of the initial persisted list
Base(id, category, details) ==
  [id |-> id, date |-> "2024-01-01", amount |-> "10", category |-> category,
   details |-> details, paidBy |-> "Me", createdAt |-> "t0"]

StoredRecords ==
  << Base("e1", "Food", "d1") @@ [subcategory |-> "Groceries", original_prompt |-> "p1"],
     Base("e2", "Other", "d2"),
     Base("e3", "Shopping", "d3") @@ [subcategory |-> Null, normalized_merchant |-> "m3"] >>

\* the lists of at most n of these records, each record at most once (ids
\* are crypto.randomUUID(), so no two persisted records share one)
Stores(n) ==
  { SelectSeq(StoredRecords, LAMBDA e : e.id \in ids) :
      ids \in { x \in SUBSET {"e1", "e2", "e3"} : Cardinality(x) <= n } }

\* the changes a caller may approve
Change(tid, cat, sub, desc) ==
  [transaction_id |-> tid, new_category |-> cat, new_subcategory |-> sub,
   new_description |-> desc]

ApprovableChanges ==
  { Change("e1", "Transport", "Bus", "clean"),
    [transaction_id |-> "e1", new_category |-> "Health", new_subcategory |-> Null],
    Change("zzz", "Food", "Snacks", "none") }

ChangeLists(n) ==
  UNION { [1..len -> ApprovableChanges] : len \in 0..n }

Metadatas ==
  { [mode |-> Undefined, scope |-> Undefined, subcategoriesCreated |-> Undefined],
    [mode |-> "deep", scope |-> "30", subcategoriesCreated |-> "1"] }

NoReturn == [snapshot |-> <<>>, updatedCount |-> -1]

\* applyReclassification(approvedChanges, metadata) up to the first persist
ApplyBegin ==
  /\ opPc = "idle"
  /\ \E cs \in ChangeLists(MaxChanges), md \in Metadatas :
       /\ opChanges' = cs
       /\ opMeta' = md
       /\ opSnapshot' = SnapshotOf(store, cs)
       /\ opNext' = UpdatedOf(store, cs)
  /\ opPc' = "apply:persist"
  /\ UNCHANGED <<store, auditLog, held, ops, applied, preApply, postApply>>

ApplyCall == Len(ops) < MaxOps /\ ApplyBegin

\* a persist step that also writes the audit entry
ApplyPersistWithAudit ==
  /\ opPc = "apply:persist"
  /\ store' = Json(opNext)
  /\ preApply' = store
  /\ postApply' = Json(opNext)
  /\ applied' = {opChanges[k].transaction_id : k \in 1..Len(opChanges)}
  /\ opPc' = "apply:audit"
  /\ auditLog' = AddAuditEvent(auditLog,
       AuditEvent("AI_RECLASSIFICATION", "conservative", "unknown",
                  Len(opChanges), "0"))
  /\ UNCHANGED <<opChanges, opMeta, opSnapshot, opNext, held, ops>>

\* await persist(updated)
ApplyPersist ==
  /\ opPc = "apply:persist"
  /\ store' = Json(opNext)
  /\ preApply' = store
  /\ postApply' = Json(opNext)
  /\ applied' = {opChanges[k].transaction_id : k \in 1..Len(opChanges)}
  /\ opPc' = "apply:audit"
  /\ UNCHANGED <<auditLog, opChanges, opMeta, opSnapshot, opNext, held, ops>>

\* await addAuditEvent({...}); return {snapshot, updatedCount}
ApplyAudit ==
  /\ opPc = "apply:audit"
  /\ auditLog' = AddAuditEvent(auditLog,
       AuditEvent("AI_RECLASSIFICATION",
                  Coalesce(opMeta.mode, "conservative"),
                  Coalesce(opMeta.scope, "unknown"),
                  Len(opChanges),
                  Coalesce(opMeta.subcategoriesCreated, "0")))
  /\ held' = [snapshot |-> opSnapshot, updatedCount |-> Len(opChanges)]
  /\ ops' = Append(ops, "apply")
  /\ opPc' = "idle"
  /\ opChanges' = <<>> /\ opMeta' = <<>> /\ opSnapshot' = <<>> /\ opNext' = <<>>
  /\ UNCHANGED <<store, applied, preApply, postApply>>

\* undoReclassification(snapshot), with the snapshot the last apply returned,
\* up to the persist
UndoBegin ==
  /\ opPc = "idle"
  /\ held # NoReturn
  /\ opSnapshot' = held.snapshot
  /\ opNext' = RestoredOf(store, held.snapshot)
  /\ opPc' = "undo:persist"
  /\ UNCHANGED <<store, auditLog, opChanges, opMeta, held, ops, applied,
                 preApply, postApply>>

UndoCall == Len(ops) < MaxOps /\ UndoBegin

\* await persist(restored)
UndoPersist ==
  /\ opPc = "undo:persist"
  /\ store' = Json(opNext)
  /\ opPc' = "undo:audit"
  /\ UNCHANGED <<auditLog, opChanges, opMeta, opSnapshot, opNext, held, ops,
                 applied, preApply, postApply>>

\* await addAuditEvent({type: 'AI_RECLASSIFICATION_UNDO', restoredCount})
UndoAudit ==
  /\ opPc = "undo:audit"
  /\ auditLog' = AddAuditEvent(auditLog,
       AuditEvent("AI_RECLASSIFICATION_UNDO", Undefined, Undefined,
                  Len(opSnapshot), Undefined))
  /\ ops' = Append(ops, "undo")
  /\ opPc' = "idle"
  /\ opSnapshot' = <<>> /\ opNext' = <<>>
  /\ UNCHANGED <<store, opChanges, opMeta, held, applied, preApply, postApply>>

\* the update payloads of updateExpense
Updates ==
  { [category |-> "Health", id |-> "other"],
    [details |-> "edited", original_prompt |-> "other"] }

\* { ...expenses[idx], ...safeUpdates, id } with original_prompt stripped
UpdatedRecord(e, id, updates) ==
  [f \in DOMAIN e \cup (DOMAIN updates \ {"original_prompt"}) \cup {"id"} |->
     IF f = "id" THEN id
     ELSE IF f \in DOMAIN updates \ {"original_prompt"} THEN updates[f]
     ELSE e[f]]

\* updateExpense(id, updates); it throws when no record has the id
UpdateExpenseCall ==
  /\ opPc = "idle"
  /\ \E id \in {"e1", "zzz"}, up \in Updates :
       IF HasId(store, "id", id)
       THEN LET idx == CHOOSE k \in 1..Len(store) :
                         store[k].id = id /\ \A j \in 1..(k - 1) : store[j].id # id
            IN  store' = Json([store EXCEPT ![idx] = UpdatedRecord(store[idx], id, up)])
       ELSE UNCHANGED store
  /\ ops' = Append(ops, "update")
  /\ UNCHANGED <<auditLog, opPc, opChanges, opMeta, opSnapshot, opNext, held,
                 applied, preApply, postApply>>

UpdateExpense == Len(ops) < MaxOps /\ UpdateExpenseCall

\* { ...expenses[idx], ...updates, id }: the updateExpense of the second
\* storage module, which writes every property of the payload
UpdatedRecordSecond(e, id, updates) ==
  [f \in DOMAIN e \cup DOMAIN updates \cup {"id"} |->
     IF f = "id" THEN id
     ELSE IF f \in DOMAIN updates THEN updates[f]
     ELSE e[f]]

\* updateExpense(id, updates) of the second storage module; both modules
\* persist under the key 'expense_tracker_v1'
UpdateExpenseSecond ==
  /\ opPc = "idle" /\ Len(ops) < MaxOps
  /\ \E id \in {"e1", "zzz"}, up \in Updates :
       IF HasId(store, "id", id)
       THEN LET idx == CHOOSE k \in 1..Len(store) :
                         store[k].id = id /\ \A j \in 1..(k - 1) : store[j].id # id
            IN  store' = Json([store EXCEPT ![idx] = UpdatedRecordSecond(store[idx], id, up)])
       ELSE UNCHANGED store
  /\ ops' = Append(ops, "update")
  /\ UNCHANGED <<auditLog, opPc, opChanges, opMeta, opSnapshot, opNext, held,
                 applied, preApply, postApply>>

\* deleteExpense(id)
DeleteExpenseCall ==
  /\ opPc = "idle"
  /\ \E id \in {"e1", "e3"} :
       store' = Json(SelectSeq(store, LAMBDA e : e.id # id))
  /\ ops' = Append(ops, "delete")
  /\ UNCHANGED <<auditLog, opPc, opChanges, opMeta, opSnapshot, opNext, held,
                 applied, preApply, postApply>>

DeleteExpense == Len(ops) < MaxOps /\ DeleteExpenseCall

\* crypto.randomUUID(): the n-th call gives an id that no other call gives and
\* no record of the initial list has
RandomUUID(n) == <<"u1", "u2", "u3", "u4", "u5", "u6">>[n]

\* the data given to addExpense: the fields of the entry form, and an object
\* that carries an id of its own
AddDatas ==
  { [date |-> "2024-02-02", amount |-> "7", category |-> "Food", details |-> "new"],
    [id |-> "e3", amount |-> "7", paidBy |-> "Ann"] }

\* { id: crypto.randomUUID(), createdAt: ..., paidBy: 'Me', ...data }
NewExpense(uuid, data) ==
  [f \in {"id", "createdAt", "paidBy"} \cup DOMAIN data |->
     IF f \in DOMAIN data THEN data[f]
     ELSE CASE f = "id"        -> uuid
            [] f = "createdAt" -> "t1"
            [] f = "paidBy"    -> "Me"]

\* addExpense(data)
AddExpenseCall ==
  /\ opPc = "idle"
  /\ \E data \in AddDatas :
       store' = Json(<<NewExpense(RandomUUID(Len(ops) + 1), data)>> \o store)
  /\ ops' = Append(ops, "add")
  /\ UNCHANGED <<auditLog, opPc, opChanges, opMeta, opSnapshot, opNext, held,
                 applied, preApply, postApply>>

StoreIdle ==
  /\ store = <<>> /\ auditLog = <<>> /\ opPc = "off"
  /\ opChanges = <<>> /\ opMeta = <<>> /\ opSnapshot = <<>> /\ opNext = <<>>
  /\ held = NoReturn /\ ops = <<>> /\ applied = {}
  /\ preApply = <<>> /\ postApply = <<>>

----------------------------------------------------------------------------
\* runReclassification

Models == {"gemini-2.5-flash-lite", "gemini-2.5-flash", "gemini-pro"}
ApiKeys == {"", "key"}

Pending       == [state |-> "pending",  changes |-> <<>>, newSubcategories |-> <<>>, error |-> ""]
Resolved(c, n) == [state |-> "resolved", changes |-> c,   newSubcategories |-> n,   error |-> ""]
Rejected(m)   == [state |-> "rejected", changes |-> <<>>, newSubcategories |-> <<>>, error |-> m]

\* an answer that succeeded and carries a document of the requested schema
WellFormedReply(r) ==
  /\ r.fetch = "resolved" /\ r.httpOk /\ r.parses
  /\ r.parsed.kind = "object" /\ r.parsed.changesIsArray /\ r.parsed.subsIsArray
  /\ \A k \in 1..Len(r.parsed.changes) :
       /\ r.parsed.changes[k].tidT = "string"
       /\ r.parsed.changes[k].catT = "string"
       /\ r.parsed.changes[k].confT = "number"

\* events of the trace
Progress(current, total, retrying) ==
  [ev |-> "progress", current |-> current, total |-> total, retrying |-> retrying,
   model |-> "", ms |-> 0, reply |-> 0]
Sleep(ms) ==
  [ev |-> "sleep", current |-> 0, total |-> 0, retrying |-> FALSE,
   model |-> "", ms |-> ms, reply |-> 0]
Request(current, m) ==
  [ev |-> "request", current |-> current, total |-> 0, retrying |-> FALSE,
   model |-> m, ms |-> 0, reply |-> 0]
\* the answer to a request: reply is its index in Replies when it is a success
\* carrying a well-formed document, and 0 for every other answer
Response(current, m, r) ==
  [ev |-> "response", current |-> current, total |-> 0, retrying |-> FALSE,
   model |-> m, ms |-> 0, reply |-> IF WellFormedReply(Replies[r]) THEN r ELSE 0]

\* the two guards at the head of runReclassification: the error thrown, or ""
PreconditionErrorNoKeyCheck(es, key) ==
  IF Len(es) = 0 THEN "No expenses in scope" ELSE ""

PreconditionError(es, key) ==
  IF key = "" THEN "VITE_GEMINI_API_KEY is not set"
  ELSE IF Len(es) = 0 THEN "No expenses in scope"
  ELSE ""

\* the predicate of the final filter
KeepChangeStrict(c) ==
  /\ c.confidence > CONFIDENCE_THRESHOLD
  /\ \E k \in 1..Len(CATEGORIES) : CATEGORIES[k] = c.new_category

KeepChange(c) ==
  /\ c.confidence >= CONFIDENCE_THRESHOLD
  /\ \E k \in 1..Len(CATEGORIES) : CATEGORIES[k] = c.new_category

FinalFilter(cs) == SelectSeq(cs, KeepChange)

\* an entry that sorts the list it was given in place
StartSortingInPlace ==
  /\ pc = "start"
  /\ LET err == PreconditionError(expenses, apiKey) IN
       IF err # ""
       THEN /\ result' = Rejected(err)
            /\ pc' = "done"
            /\ UNCHANGED <<batches, expenses>>
       ELSE /\ batches' = chunkByDays(expenses, BATCH_DAYS)
            /\ expenses' = SortByDate(expenses)
            /\ pc' = "loop"
            /\ UNCHANGED result
  /\ UNCHANGED <<model, apiKey, i, allChanges, allNewSubcategories,
                 validated, reply, trace>>

\* the entry of runReclassification up to the loop
Start ==
  /\ pc = "start"
  /\ LET err == PreconditionError(expenses, apiKey) IN
       IF err # ""
       THEN /\ result' = Rejected(err)
            /\ pc' = "done"
            /\ UNCHANGED batches
       ELSE /\ batches' = chunkByDays(expenses, BATCH_DAYS)
            /\ pc' = "loop"
            /\ UNCHANGED result
  /\ UNCHANGED <<expenses, model, apiKey, i, allChanges, allNewSubcategories,
                 validated, reply, trace>>

\* a loop that sends the next batch's request together with this batch's
ProgressAndRequestAhead ==
  <<Progress(i + 1, Len(batches), FALSE), Request(i + 1, model), Request(i + 2, model)>>

\* onProgress?.({current: i + 1, total, retrying: false}) and the primary request
ProgressAndRequest ==
  <<Progress(i + 1, Len(batches), FALSE), Request(i + 1, model)>>

\* the loop head: the loop ends (final filter, return), or the pause before a
\* batch other than the first starts, or the first batch's request goes out
LoopHead ==
  /\ pc = "loop"
  /\ IF i >= Len(batches)
     THEN /\ result' = Resolved(FinalFilter(allChanges), allNewSubcategories)
          /\ pc' = "done"
          /\ UNCHANGED trace
     ELSE IF i > 0
     THEN /\ trace' = Append(trace, Sleep(BATCH_DELAY_MS))
          /\ pc' = "pause"
          /\ UNCHANGED result
     ELSE /\ trace' = trace \o ProgressAndRequest
          /\ pc' = "primary"
          /\ UNCHANGED result
  /\ UNCHANGED <<expenses, model, apiKey, i, batches, allChanges,
                 allNewSubcategories, validated, reply>>

\* sleep(BATCH_DELAY_MS) is over
PauseOver ==
  /\ pc = "pause"
  /\ trace' = trace \o ProgressAndRequest
  /\ pc' = "primary"
  /\ UNCHANGED <<expenses, model, apiKey, i, batches, allChanges,
                 allNewSubcategories, validated, reply, result>>

\* allChanges.push(...validated.changes); allNewSubcategories.push(...); i++
Aggregate(v) ==
  /\ validated' = v
  /\ allChanges' = allChanges \o v.changes
  /\ allNewSubcategories' = allNewSubcategories \o v.new_subcategories
  /\ i' = i + 1
  /\ pc' = "loop"

\* continue: the batch is skipped
Skip ==
  /\ i' = i + 1
  /\ pc' = "loop"
  /\ UNCHANGED <<validated, allChanges, allNewSubcategories>>

\* the catch block of the primary call, up to the wait before the retry
PrimaryFailed(err, r) ==
  IF MODEL_FALLBACK(model) = Undefined
  THEN /\ result' = Rejected(err)
       /\ pc' = "done"
       /\ trace' = Append(trace, Response(i + 1, model, r))
       /\ UNCHANGED <<i, allChanges, allNewSubcategories, validated>>
  ELSE /\ trace' = trace \o <<Response(i + 1, model, r),
                               Progress(i + 1, Len(batches), TRUE),
                               Sleep(RETRY_DELAY_MS)>>
       /\ pc' = "retryWait"
       /\ UNCHANGED <<i, allChanges, allNewSubcategories, validated, result>>

\* the primary call settles
PrimaryReturn ==
  /\ pc = "primary"
  /\ \E r \in 1..Len(Replies) :
       /\ reply' = Replies[r]
       /\ LET got == callGeminiBatch(Replies[r]) IN
            IF got.ok
            THEN /\ Aggregate(got.value)
                 /\ trace' = Append(trace, Response(i + 1, model, r))
                 /\ UNCHANGED result
            ELSE PrimaryFailed(got.error, r)
  /\ UNCHANGED <<expenses, model, apiKey, batches>>

\* sleep(1000) is over: the request to the fallback model goes out
RetryWaitOver ==
  /\ pc = "retryWait"
  /\ trace' = Append(trace, Request(i + 1, MODEL_FALLBACK(model)))
  /\ pc' = "fallback"
  /\ UNCHANGED <<expenses, model, apiKey, i, batches, allChanges,
                 allNewSubcategories, validated, reply, result>>

\* a fallback call whose answer is never used
FallbackReturnAlwaysSkips ==
  /\ pc = "fallback"
  /\ \E r \in 1..Len(Replies) :
       /\ reply' = Replies[r]
       /\ trace' = Append(trace, Response(i + 1, MODEL_FALLBACK(model), r))
       /\ Skip
  /\ UNCHANGED <<expenses, model, apiKey, batches, result>>

\* the fallback call settles
FallbackReturn ==
  /\ pc = "fallback"
  /\ \E r \in 1..Len(Replies) :
       /\ reply' = Replies[r]
       /\ LET got == callGeminiBatch(Replies[r]) IN
            /\ trace' = Append(trace, Response(i + 1, MODEL_FALLBACK(model), r))
            /\ IF got.ok THEN Aggregate(got.value) ELSE Skip
  /\ UNCHANGED <<expenses, model, apiKey, batches, result>>

NotSettled == [ok |-> FALSE, value |-> NullValue, error |-> "<pending>"]

CallIdle ==
  /\ callPc = "idle" /\ callModel = "" /\ callPayload = <<>>
  /\ callTimer = "none" /\ callReply = 0 /\ callOutcome = NotSettled

\* a scope argument: the string 'all', a number of days, or another string
AllScope == [kind |-> "all", days |-> 0]
DayScope(n) == [kind |-> "number", days |-> n]

ScopeIdle ==
  /\ gsExpenses = <<>> /\ gsScope = AllScope /\ gsNow = <<>> /\ gsResult = <<>>
  /\ gsPc = "idle"

PayIdle ==
  /\ payA = <<>> /\ payB = <<>> /\ payMode = "" /\ payBodiesA = <<>>
  /\ payBodiesB = <<>> /\ payPc = "idle"

SubIdle == subcategories = <<>> /\ subOps = <<>>

ExIdle ==
  /\ exText = "" /\ exKey = "" /\ exReply = <<>> /\ exPc = "idle" /\ exStatus = 0

MutIdle ==
  /\ mutPc = "off" /\ mutKind = <<>> /\ mutLoaded = <<>> /\ opLog = <<>>

RunIdle ==
  /\ expenses = <<>> /\ model = "" /\ apiKey = "" /\ pc = "idle" /\ i = 0
  /\ batches = <<>> /\ allChanges = <<>> /\ allNewSubcategories = <<>>
  /\ validated = NullValue /\ reply = NoReply /\ trace = <<>>
  /\ result = Pending

CbIdle ==
  cbInput = <<>> /\ cbDaySize = 0 /\ cbResult = <<>> /\ cbPc = "idle"

\* runReclassification({expenses, mode, model, apiKey, onProgress}) is called
RunDates == {NoDate, 1, FarDay, FarDay + BATCH_DAYS + 1}

Init ==
  /\ expenses \in {es \in ExpenseLists(MaxRunLen) :
                     \A k \in 1..Len(es) : es[k].date \in RunDates}
  /\ model \in Models
  /\ apiKey \in ApiKeys
  /\ pc = "start" /\ i = 0
  /\ batches = <<>> /\ allChanges = <<>> /\ allNewSubcategories = <<>>
  /\ validated = NullValue /\ reply = NoReply /\ trace = <<>>
  /\ result = Pending
  /\ CbIdle
  /\ StoreIdle
  /\ CallIdle
  /\ ScopeIdle /\ PayIdle /\ SubIdle /\ ExIdle /\ MutIdle

Next ==
  \/ Start /\ UNCHANGED <<cbVars, stVars, callVars,
                   scopeVars, payVars, subVars, exVars, mutVars>>
  \/ LoopHead /\ UNCHANGED <<cbVars, stVars, callVars,
                   scopeVars, payVars, subVars, exVars, mutVars>>
  \/ PauseOver /\ UNCHANGED <<cbVars, stVars, callVars,
                   scopeVars, payVars, subVars, exVars, mutVars>>
  \/ PrimaryReturn /\ UNCHANGED <<cbVars, stVars, callVars,
                   scopeVars, payVars, subVars, exVars, mutVars>>
  \/ RetryWaitOver /\ UNCHANGED <<cbVars, stVars, callVars,
                   scopeVars, payVars, subVars, exVars, mutVars>>
  \/ FallbackReturn /\ UNCHANGED <<cbVars, stVars, callVars,
                   scopeVars, payVars, subVars, exVars, mutVars>>

Spec == Init /\ [][Next]_vars

----------------------------------------------------------------------------
\* chunkByDays(expenses, daySize) called on its own

DaySizes == {0, 1, 2, BATCH_DAYS}

CbCall ==
  /\ cbPc = "call"
  /\ cbResult' = chunkByDays(cbInput, cbDaySize)
  /\ cbPc' = "returned"
  /\ UNCHANGED <<cbInput, cbDaySize>>

InitChunk ==
  /\ cbInput \in ExpenseLists(MaxLen)
  /\ cbDaySize \in DaySizes
  /\ cbResult = <<>>
  /\ cbPc = "call"
  /\ RunIdle
  /\ StoreIdle
  /\ CallIdle
  /\ ScopeIdle /\ PayIdle /\ SubIdle /\ ExIdle /\ MutIdle

NextChunk == CbCall /\ UNCHANGED <<runVars, stVars, callVars,
                   scopeVars, payVars, subVars, exVars, mutVars>>

SpecChunk == InitChunk /\ [][NextChunk]_vars

----------------------------------------------------------------------------
\* Properties of chunkByDays (checked under SpecChunk)

\* the places <<b, j>> of the returned batches that hold expense e
PlacesOf(e, bs) ==
  { p \in (1..Len(bs)) \X (1..MaxLen + 1) :
      p[2] <= Len(bs[p[1]]) /\ bs[p[1]][p[2]] = e }

\* C1: batching is a partition: after chunkByDays has returned, every input
\* expense (also one without a date) is in exactly one batch, and every
\* element of every batch is an input expense.
C1_BatchesPartitionInput ==
  cbPc = "returned" =>
    /\ \A k \in 1..Len(cbInput) : Cardinality(PlacesOf(cbInput[k], cbResult)) = 1
    /\ \A b \in 1..Len(cbResult) : \A j \in 1..Len(cbResult[b]) :
         \E k \in 1..Len(cbInput) : cbInput[k] = cbResult[b][j]

----------------------------------------------------------------------------
\* Properties of runReclassification (checked under Spec)

\* the events of one kind that belong to batch b (1-based), in order
EventsOf(kind, b) == SelectSeq(trace, LAMBDA e : e.ev = kind /\ e.current = b)
Requests(b)  == EventsOf("request", b)
Responses(b) == EventsOf("response", b)
AllRequests  == SelectSeq(trace, LAMBDA e : e.ev = "request")

\* batch b got at least one answer and none was a well-formed success
FailedEveryAttempt(b) ==
  /\ Len(Responses(b)) > 0
  /\ \A k \in 1..Len(Responses(b)) : Responses(b)[k].reply = 0

\* the changes / proposed subcategories of the well-formed answer to batch b
AcceptedOf(b) == SelectSeq(Responses(b), LAMBDA e : e.reply # 0)
ChangesOf(b) ==
  IF AcceptedOf(b) = <<>> THEN <<>> ELSE Replies[AcceptedOf(b)[1].reply].parsed.changes
SubcategoriesOf(b) ==
  IF AcceptedOf(b) = <<>> THEN <<>>
  ELSE Replies[AcceptedOf(b)[1].reply].parsed.new_subcategories

CategorySet ==
  {"Food", "Transport", "Utilities", "Entertainment", "Shopping", "Health", "Other"}
Confident(c) == c.confidence >= 75 /\ c.new_category \in CategorySet

RECURSIVE KeptUpTo(_)
KeptUpTo(b) ==
  IF b = 0 THEN <<>> ELSE KeptUpTo(b - 1) \o SelectSeq(ChangesOf(b), Confident)
RECURSIVE SubcategoriesUpTo(_)
SubcategoriesUpTo(b) ==
  IF b = 0 THEN <<>> ELSE SubcategoriesUpTo(b - 1) \o SubcategoriesOf(b)

\* C2: failure isolation: a finished run of two or more batches in which some
\* batch failed on every attempt made for it has resolved, with the filtered
\* changes of the other batches.
C2_FailureIsolation ==
  (/\ pc = "done"
   /\ Len(batches) >= 2
   /\ \E b \in 1..Len(batches) : FailedEveryAttempt(b))
  => /\ result.state = "resolved"
     /\ result.changes = KeptUpTo(Len(batches))

\* C3: retry policy: in a finished run every batch that was started got its
\* first request on the primary model; it got a second request if and only if
\* the first answer was a failure, that one on the fallback model, which
\* differs from the primary, and after a wait; never a third; so the run
\* sent at most 2 * B requests.
SleepBetween(b) ==
  \E k \in 2..Len(trace) :
    /\ trace[k] = Requests(b)[2]
    /\ trace[k - 1].ev = "sleep"

C3_RetryPolicy ==
  pc = "done" =>
    /\ \A b \in 1..Len(batches) :
         Len(Requests(b)) > 0 =>
           /\ Requests(b)[1].model = model
           /\ Len(Requests(b)) <= 2
           /\ Len(Responses(b)) = Len(Requests(b))
           /\ (Len(Requests(b)) = 2) <=> (Responses(b)[1].reply = 0)
           /\ Len(Requests(b)) = 2 =>
                /\ Requests(b)[2].model = MODEL_FALLBACK(model)
                /\ Requests(b)[2].model # model
                /\ SleepBetween(b)
    /\ Len(AllRequests) <= 2 * Len(batches)

\* C4: fallback success: when the primary answer for a batch was a failure and
\* the fallback answer was a well-formed success, the run resolves, the result
\* holds that batch's filtered changes and its proposed subcategories at the
\* batch's place in the aggregation, and exactly one progress event with
\* retrying = true was emitted for the batch.
FallbackSucceeded(b) ==
  /\ Len(Responses(b)) = 2
  /\ Responses(b)[1].reply = 0
  /\ Responses(b)[2].reply # 0

RetryEvents(b) == SelectSeq(EventsOf("progress", b), LAMBDA e : e.retrying)

\* part is in whole, starting right after the first off elements
HoldsAt(whole, off, part) ==
  /\ Len(whole) >= off + Len(part)
  /\ SubSeq(whole, off + 1, off + Len(part)) = part

C4_FallbackSuccess ==
  \A b \in 1..Len(batches) :
    FallbackSucceeded(b) =>
      /\ Len(RetryEvents(b)) = 1
      /\ result.state # "rejected"
      /\ pc = "done" =>
           /\ result.state = "resolved"
           /\ HoldsAt(result.changes, Len(KeptUpTo(b - 1)),
                      SelectSeq(ChangesOf(b), Confident))
           /\ HoldsAt(result.newSubcategories, Len(SubcategoriesUpTo(b - 1)),
                      SubcategoriesOf(b))

C4_Witness ==
  /\ pc = "done"
  /\ Len(batches) >= 2
  /\ FallbackSucceeded(2)
  /\ Len(KeptUpTo(1)) > 0
  /\ Len(SelectSeq(ChangesOf(2), Confident)) > 0
  /\ SubcategoriesOf(2) # <<>>

\* C5: configuration errors fail fast: a run called without an apiKey or with
\* no expense never emits a progress event, never sends a request and never
\* waits, and it ends rejected.
C5_ConfigErrorsFailFast ==
  (apiKey = "" \/ Len(expenses) = 0) =>
    /\ trace = <<>>
    /\ pc \in {"start", "done"}
    /\ pc = "done" => result.state = "rejected"

C5_Witness ==
  /\ pc = "done" /\ apiKey = "" /\ Len(expenses) > 0
  /\ result.state = "rejected" /\ trace = <<>>

\* C6: final filter: the changes of a resolved run are, in aggregation order,
\* exactly the changes of the well-formed accepted answers whose confidence is
\* >= 0.75 and whose new_category is one of CATEGORIES; a change at exactly
\* 0.75 with a known category is returned, a change with an unknown category
\* is not, whatever its confidence.
RECURSIVE AggregatedUpTo(_)
AggregatedUpTo(b) ==
  IF b = 0 THEN <<>> ELSE AggregatedUpTo(b - 1) \o ChangesOf(b)

InSeq(x, sq) == \E k \in 1..Len(sq) : sq[k] = x

C6_FinalFilter ==
  result.state = "resolved" =>
    /\ result.changes = KeptUpTo(Len(batches))
    /\ \A k \in 1..Len(AggregatedUpTo(Len(batches))) :
         LET c == AggregatedUpTo(Len(batches))[k] IN
           /\ (c.confidence = 75 /\ c.new_category \in CategorySet)
                => InSeq(c, result.changes)
           /\ c.new_category \notin CategorySet => ~InSeq(c, result.changes)
           /\ c.confidence < 75 => ~InSeq(c, result.changes)

C6_Witness ==
  /\ result.state = "resolved"
  /\ \E k \in 1..Len(result.changes) : result.changes[k].confidence = 75
  /\ \E k \in 1..Len(allChanges) :
       allChanges[k].confidence = 100 /\ allChanges[k].new_category = "Bogus"
  /\ \E k \in 1..Len(allChanges) : allChanges[k].confidence = 50
  /\ Len(result.changes) < Len(allChanges)

\* C7: every change a resolved run returns names the id of an expense that was
\* passed to the run.
C7_ChangesNameInputExpenses ==
  result.state = "resolved" =>
    \A k \in 1..Len(result.changes) :
      \E j \in 1..Len(expenses) : expenses[j].id = result.changes[k].transaction_id

\* C8: validation is all-or-nothing: when the answer that settles a call is a
\* delivered document that is not of the schema (no object, a missing list, an
\* entry lacking a property), nothing of it is aggregated and the step taken
\* is the one a transport failure takes: after the primary call the retry
\* event, the wait and then the fallback request (the rejection of the run
\* when the model has no fallback), after the fallback call the skip.
MalformedDocument(r) ==
  /\ r.fetch = "resolved" /\ r.httpOk /\ r.parses
  /\ ~WellFormedReply(r)

C8_ValidationAllOrNothing ==
  [][ (pc \in {"primary", "fallback"} /\ pc' # pc /\ MalformedDocument(reply')) =>
        /\ allChanges' = allChanges
        /\ allNewSubcategories' = allNewSubcategories
        /\ (pc = "primary" /\ MODEL_FALLBACK(model) # Undefined) =>
             /\ pc' = "retryWait"
             /\ i' = i
             /\ trace'[Len(trace')] = Sleep(1000)
             /\ trace'[Len(trace') - 1] = Progress(i + 1, Len(batches), TRUE)
             /\ trace'[Len(trace') - 2].ev = "response"
             /\ trace'[Len(trace') - 2].reply = 0
        /\ (pc = "primary" /\ MODEL_FALLBACK(model) = Undefined) =>
             /\ pc' = "done"
             /\ result'.state = "rejected"
        /\ pc = "fallback" =>
             /\ pc' = "loop"
             /\ i' = i + 1 ]_vars

C8_Witness ==
  /\ pc = "fallback"
  /\ reply = Replies[13]
  /\ allChanges = <<>>
  /\ i = 0

----------------------------------------------------------------------------
\* The storage operations, one at a time

InitStore ==
  /\ store \in Stores(MaxStore)
  /\ auditLog = <<>>
  /\ opPc = "idle"
  /\ opChanges = <<>> /\ opMeta = <<>> /\ opSnapshot = <<>> /\ opNext = <<>>
  /\ held = NoReturn /\ ops = <<>> /\ applied = {}
  /\ preApply = <<>> /\ postApply = <<>>
  /\ RunIdle
  /\ CbIdle
  /\ CallIdle
  /\ ScopeIdle /\ PayIdle /\ SubIdle /\ ExIdle /\ MutIdle

NextStore ==
  \/ ApplyCall /\ UNCHANGED <<cbVars, runVars, callVars,
                   scopeVars, payVars, subVars, exVars, mutVars>>
  \/ ApplyPersist /\ UNCHANGED <<cbVars, runVars, callVars,
                   scopeVars, payVars, subVars, exVars, mutVars>>
  \/ ApplyAudit /\ UNCHANGED <<cbVars, runVars, callVars,
                   scopeVars, payVars, subVars, exVars, mutVars>>
  \/ UndoCall /\ UNCHANGED <<cbVars, runVars, callVars,
                   scopeVars, payVars, subVars, exVars, mutVars>>
  \/ UndoPersist /\ UNCHANGED <<cbVars, runVars, callVars,
                   scopeVars, payVars, subVars, exVars, mutVars>>
  \/ UndoAudit /\ UNCHANGED <<cbVars, runVars, callVars,
                   scopeVars, payVars, subVars, exVars, mutVars>>
  \/ UpdateExpense /\ UNCHANGED <<cbVars, runVars, callVars,
                   scopeVars, payVars, subVars, exVars, mutVars>>
  \/ UpdateExpenseSecond /\ UNCHANGED <<cbVars, runVars, callVars,
                   scopeVars, payVars, subVars, exVars, mutVars>>
  \/ DeleteExpense /\ UNCHANGED <<cbVars, runVars, callVars,
                   scopeVars, payVars, subVars, exVars, mutVars>>

SpecStore == InitStore /\ [][NextStore]_vars

----------------------------------------------------------------------------
\* Properties of apply and undo (checked under SpecStore)

LastTwo(sq) == IF Len(sq) < 2 THEN <<>> ELSE SubSeq(sq, Len(sq) - 1, Len(sq))

----------------------------------------------------------------------------
\* Properties of the merge (checked under SpecStore on the step that persists
\* the merged list)

ApplyWrites == opPc = "apply:persist" /\ opPc' = "apply:audit"

MergedFields == {"category", "subcategory", "details"}

\* C11: merge semantics: on the write of applyReclassification every record
\* that an approved change names (the last such change) has that change's
\* new_category as category, its new_subcategory as subcategory (null when the
\* change carries null), its new_description as details when it supplies one
\* and the old details otherwise; every other property of the record is as
\* before, none added and none removed; a record no change names is as before.
C11_MergeSemantics ==
  [][ ApplyWrites =>
        /\ Len(store') = Len(store)
        /\ \A k \in 1..Len(store) :
             IF HasId(opChanges, "transaction_id", store[k].id)
             THEN LET c == LastWith(opChanges, "transaction_id", store[k].id) IN
                    /\ Prop(store'[k], "category") = c.new_category
                    /\ Prop(store'[k], "subcategory") = c.new_subcategory
                    /\ Prop(store'[k], "details") =
                         IF Prop(c, "new_description") \in {Undefined, Null}
                         THEN Prop(store[k], "details")
                         ELSE c.new_description
                    /\ DOMAIN store'[k] \ MergedFields = DOMAIN store[k] \ MergedFields
                    /\ \A f \in DOMAIN store[k] \ MergedFields :
                         Prop(store'[k], f) = store[k][f]
             ELSE store'[k] = store[k] ]_vars

----------------------------------------------------------------------------
\* Record identity (checked under SpecStore on every step)

\* C13: record identity: no step of updateExpense (whatever the payload
\* carries), applyReclassification or undoReclassification changes the id or
\* the original_prompt of a persisted record: a step that keeps the length of
\* the list keeps both at every position, and every record persisted after any
\* step has the id and the original_prompt of a record persisted before it.
C13_RecordIdentity ==
  [][ /\ Len(store') = Len(store) =>
           \A k \in 1..Len(store) :
             /\ store'[k].id = store[k].id
             /\ Prop(store'[k], "original_prompt") = Prop(store[k], "original_prompt")
      /\ \A k \in 1..Len(store') :
           \E j \in 1..Len(store) :
             /\ store[j].id = store'[k].id
             /\ Prop(store[j], "original_prompt") = Prop(store'[k], "original_prompt") ]_vars


----------------------------------------------------------------------------
\* C14: the count of changed records: the updatedCount applyReclassification
\* returned equals the number of records in the snapshot it returned (the
\* persisted records the apply changed), and so does the count in the audit
\* event it wrote, also when a change names an id absent from the store or two
\* changes name the same id.
C14_CountIsChangedRecords ==
  /\ held # NoReturn => held.updatedCount = Len(held.snapshot)
  /\ (opPc = "idle" /\ Len(ops) > 0 /\ ops[Len(ops)] = "apply") =>
       /\ auditLog[1].type = "AI_RECLASSIFICATION"
       /\ auditLog[1].count = Len(held.snapshot)


----------------------------------------------------------------------------
\* applyReclassification over storage whose reads and writes may fail.
\* Preferences.get or JSON.parse failing inside load() / loadAuditLog() is
\* caught there and the function returns []; Preferences.set failing inside
\* persist() / persistAuditLog() rejects, and the rejection propagates out of
\* applyReclassification.

\* load() fails: const expenses = [], and the call goes on to the persist
ApplyCallReadFails ==
  /\ opPc = "idle" /\ Len(ops) < MaxOps
  /\ \E cs \in ChangeLists(MaxChanges), md \in Metadatas :
       /\ opChanges' = cs
       /\ opMeta' = md
       /\ opSnapshot' = SnapshotOf(<<>>, cs)
       /\ opNext' = UpdatedOf(<<>>, cs)
  /\ opPc' = "apply:persist"
  /\ UNCHANGED <<store, auditLog, held, ops, applied, preApply, postApply>>

\* await persist(updated) rejects: nothing is written, the call rejects
ApplyPersistFails ==
  /\ opPc = "apply:persist"
  /\ preApply' = store
  /\ postApply' = store
  /\ applied' = {opChanges[k].transaction_id : k \in 1..Len(opChanges)}
  /\ ops' = Append(ops, "apply:rejected")
  /\ opPc' = "idle"
  /\ opChanges' = <<>> /\ opMeta' = <<>> /\ opSnapshot' = <<>> /\ opNext' = <<>>
  /\ UNCHANGED <<store, auditLog, held>>

\* addAuditEvent with loadAuditLog() failing: the log read is [], the event is
\* written as the only entry, and the call returns
ApplyAuditReadFails ==
  /\ opPc = "apply:audit"
  /\ auditLog' = AddAuditEvent(<<>>,
       AuditEvent("AI_RECLASSIFICATION",
                  Coalesce(opMeta.mode, "conservative"),
                  Coalesce(opMeta.scope, "unknown"),
                  Len(opChanges),
                  Coalesce(opMeta.subcategoriesCreated, "0")))
  /\ held' = [snapshot |-> opSnapshot, updatedCount |-> Len(opChanges)]
  /\ ops' = Append(ops, "apply")
  /\ opPc' = "idle"
  /\ opChanges' = <<>> /\ opMeta' = <<>> /\ opSnapshot' = <<>> /\ opNext' = <<>>
  /\ UNCHANGED <<store, applied, preApply, postApply>>

\* addAuditEvent with persistAuditLog() rejecting: the call rejects after the
\* expense list was written
ApplyAuditWriteFails ==
  /\ opPc = "apply:audit"
  /\ ops' = Append(ops, "apply:rejected")
  /\ opPc' = "idle"
  /\ opChanges' = <<>> /\ opMeta' = <<>> /\ opSnapshot' = <<>> /\ opNext' = <<>>
  /\ UNCHANGED <<store, auditLog, held, applied, preApply, postApply>>

NextFault ==
  \/ ApplyCall /\ UNCHANGED <<cbVars, runVars, callVars,
                   scopeVars, payVars, subVars, exVars, mutVars>>
  \/ ApplyCallReadFails /\ UNCHANGED <<cbVars, runVars, callVars,
                   scopeVars, payVars, subVars, exVars, mutVars>>
  \/ ApplyPersist /\ UNCHANGED <<cbVars, runVars, callVars,
                   scopeVars, payVars, subVars, exVars, mutVars>>
  \/ ApplyPersistFails /\ UNCHANGED <<cbVars, runVars, callVars,
                   scopeVars, payVars, subVars, exVars, mutVars>>
  \/ ApplyAudit /\ UNCHANGED <<cbVars, runVars, callVars,
                   scopeVars, payVars, subVars, exVars, mutVars>>
  \/ ApplyAuditReadFails /\ UNCHANGED <<cbVars, runVars, callVars,
                   scopeVars, payVars, subVars, exVars, mutVars>>
  \/ ApplyAuditWriteFails /\ UNCHANGED <<cbVars, runVars, callVars,
                   scopeVars, payVars, subVars, exVars, mutVars>>

SpecFault == InitStore /\ [][NextFault]_vars

\* C15: applyReclassification is all-or-nothing: on the step on which it
\* returns {snapshot, updatedCount} the persisted expense list is the merge of
\* the approved changes into the list persisted before the call, and on the
\* step on which it rejects the persisted list is the one persisted before the
\* call, whichever storage step failed.
C15_ApplyAllOrNothing ==
  [][ /\ ops' = Append(ops, "apply") =>
           /\ store' = Json(UpdatedOf(preApply', opChanges))
           /\ held'.snapshot = SnapshotOf(preApply', opChanges)
      /\ ops' = Append(ops, "apply:rejected") => store' = preApply' ]_vars


----------------------------------------------------------------------------
\* Properties of the batches (checked under SpecChunk)

\* days from the date of expense a to the date of expense b, both dated
Dated(e) == e.date # NoDate
DaysFrom(a, b) == b.date - a.date

\* C16: window bound: in every returned batch each expense after the first is
\* dated and at most daySize days after the batch's first expense (the anchor),
\* and the first expense of every batch after the first is dated and more than
\* daySize days after the anchor of the batch before it.
C16_WindowBound ==
  cbPc = "returned" =>
    /\ \A b \in 1..Len(cbResult) :
         \A j \in 2..Len(cbResult[b]) :
           /\ Dated(cbResult[b][1]) /\ Dated(cbResult[b][j])
           /\ DaysFrom(cbResult[b][1], cbResult[b][j]) >= 0
           /\ DaysFrom(cbResult[b][1], cbResult[b][j]) <= cbDaySize
    /\ \A b \in 2..Len(cbResult) :
         /\ Dated(cbResult[b - 1][1]) /\ Dated(cbResult[b][1])
         /\ DaysFrom(cbResult[b - 1][1], cbResult[b][1]) > cbDaySize

C16_Witness ==
  /\ cbPc = "returned"
  /\ cbDaySize = 1
  /\ Len(cbResult) = 2
  /\ Len(cbResult[1]) = 2
  /\ DaysFrom(cbResult[1][1], cbResult[1][2]) = cbDaySize
  /\ DaysFrom(cbResult[1][1], cbResult[2][1]) = cbDaySize + 1


\* the batches laid end to end
RECURSIVE Flat(_)
Flat(bs) == IF bs = <<>> THEN <<>> ELSE Flat(SubSeq(bs, 1, Len(bs) - 1)) \o bs[Len(bs)]

\* the place of expense e in the input
InputPlace(e) == CHOOSE k \in 1..Len(cbInput) : cbInput[k] = e

\* C17: batch order: after chunkByDays has returned, there is no batch for an
\* empty input and at least one batch otherwise, every batch is non-empty and
\* ascending by date, every date of a batch is <= every date of the next
\* batch, two returned expenses of equal date stand in their input order, and
\* the input list is in the order it was passed in.
C17_BatchOrder ==
  cbPc = "returned" =>
    /\ (Len(cbInput) = 0) <=> (cbResult = <<>>)
    /\ \A b \in 1..Len(cbResult) :
         /\ Len(cbResult[b]) > 0
         /\ \A j \in 2..Len(cbResult[b]) :
              cbResult[b][j - 1].date <= cbResult[b][j].date
    /\ \A b \in 2..Len(cbResult) :
         \A j \in 1..Len(cbResult[b - 1]), k \in 1..Len(cbResult[b]) :
           cbResult[b - 1][j].date <= cbResult[b][k].date
    /\ \A j \in 1..Len(Flat(cbResult)), k \in 1..Len(Flat(cbResult)) :
         (j < k /\ Flat(cbResult)[j].date = Flat(cbResult)[k].date) =>
           InputPlace(Flat(cbResult)[j]) < InputPlace(Flat(cbResult)[k])
    /\ \A k \in 1..Len(cbInput) : cbInput[k].id = IdOf(k)

C17_Witness ==
  /\ cbPc = "returned"
  /\ Len(cbInput) = 3
  /\ cbInput[1].date > cbInput[2].date
  /\ cbInput[2].date = cbInput[3].date
  /\ Dated(cbInput[2])
  /\ Len(cbResult) = 2
  /\ cbResult[1] = <<cbInput[2], cbInput[3]>>
  /\ cbResult[2] = <<cbInput[1]>>


----------------------------------------------------------------------------
\* Sequential processing (checked under Spec)

\* requests sent and not yet answered after the first n events
InFlight(n) ==
  Len(SelectSeq(SubSeq(trace, 1, n), LAMBDA e : e.ev = "request"))
    - Len(SelectSeq(SubSeq(trace, 1, n), LAMBDA e : e.ev = "response"))

\* the place in the trace of the first request of batch b
FirstRequestPlace(b) ==
  CHOOSE p \in 1..Len(trace) :
    /\ trace[p].ev = "request" /\ trace[p].current = b
    /\ \A q \in 1..(p - 1) : ~(trace[q].ev = "request" /\ trace[q].current = b)

\* batch b reached its final outcome within the first n events: its last
\* answer was accepted (validated), or both its attempts failed (skipped)
FinalWithin(b, n) ==
  LET rq == SelectSeq(SubSeq(trace, 1, n), LAMBDA e : e.ev = "request" /\ e.current = b)
      rs == SelectSeq(SubSeq(trace, 1, n), LAMBDA e : e.ev = "response" /\ e.current = b)
  IN  /\ Len(rq) > 0
      /\ Len(rs) = Len(rq)
      /\ rs[Len(rs)].reply # 0 \/ Len(rs) = 2
      /\ rq = Requests(b) /\ rs = Responses(b)

\* C18: batches are processed one after the other, in batch order: at every
\* point of the trace at most one request is unanswered, the requests carry
\* non-decreasing batch numbers starting at 1, and when the first request of
\* batch b + 1 was sent, batch b had reached its final outcome (validated or
\* skipped) and nothing was sent or received for it afterwards.
C18_SequentialBatches ==
  /\ \A n \in 0..Len(trace) : InFlight(n) \in {0, 1}
  /\ \A k \in 2..Len(AllRequests) :
       AllRequests[k].current \in {AllRequests[k - 1].current, AllRequests[k - 1].current + 1}
  /\ Len(AllRequests) > 0 => AllRequests[1].current = 1
  /\ \A b \in 2..Len(batches) :
       Len(Requests(b)) > 0 => FinalWithin(b - 1, FirstRequestPlace(b) - 1)

C18_Witness ==
  /\ pc = "done"
  /\ Len(batches) = 3
  /\ Len(Responses(1)) = 2 /\ FailedEveryAttempt(1)
  /\ FallbackSucceeded(2)
  /\ Len(Responses(3)) = 1 /\ Responses(3)[1].reply # 0


----------------------------------------------------------------------------
\* The audit log at its cap.  The log starts empty or as earlier operations
\* left it: n entries, the k-th oldest written by an apply of k changes.

EarlierLog(n) ==
  [k \in 1..n |-> AuditEvent("AI_RECLASSIFICATION", "conservative", "unknown",
                             n + 1 - k, "0")]

EarlierLogs == { EarlierLog(n) : n \in {0, AUDIT_CAP - 1, AUDIT_CAP} }

\* addAuditEvent(event) called on its own
AddAuditEventCall ==
  /\ opPc = "idle" /\ Len(ops) < MaxOps
  /\ auditLog' = AddAuditEvent(auditLog,
       AuditEvent("OTHER", Undefined, Undefined, Undefined, Undefined))
  /\ ops' = Append(ops, "audit")
  /\ UNCHANGED <<store, opPc, opChanges, opMeta, opSnapshot, opNext, held,
                 applied, preApply, postApply>>

InitAudit ==
  /\ store = StoredRecords
  /\ auditLog \in EarlierLogs
  /\ opPc = "idle"
  /\ opChanges = <<>> /\ opMeta = <<>> /\ opSnapshot = <<>> /\ opNext = <<>>
  /\ held = NoReturn /\ ops = <<>> /\ applied = {}
  /\ preApply = <<>> /\ postApply = <<>>
  /\ RunIdle
  /\ CbIdle
  /\ CallIdle
  /\ ScopeIdle /\ PayIdle /\ SubIdle /\ ExIdle /\ MutIdle

NextAudit ==
  \/ AddAuditEventCall /\ UNCHANGED <<cbVars, runVars, callVars,
                   scopeVars, payVars, subVars, exVars, mutVars>>
  \/ ApplyCall /\ UNCHANGED <<cbVars, runVars, callVars,
                   scopeVars, payVars, subVars, exVars, mutVars>>
  \/ ApplyPersist /\ UNCHANGED <<cbVars, runVars, callVars,
                   scopeVars, payVars, subVars, exVars, mutVars>>
  \/ ApplyAudit /\ UNCHANGED <<cbVars, runVars, callVars,
                   scopeVars, payVars, subVars, exVars, mutVars>>
  \/ UndoCall /\ UNCHANGED <<cbVars, runVars, callVars,
                   scopeVars, payVars, subVars, exVars, mutVars>>
  \/ UndoPersist /\ UNCHANGED <<cbVars, runVars, callVars,
                   scopeVars, payVars, subVars, exVars, mutVars>>
  \/ UndoAudit /\ UNCHANGED <<cbVars, runVars, callVars,
                   scopeVars, payVars, subVars, exVars, mutVars>>

SpecAudit == InitAudit /\ [][NextAudit]_vars

\* the type of the event an operation writes
EventTypeOf(op) ==
  CASE op = "apply" -> "AI_RECLASSIFICATION"
    [] op = "undo"  -> "AI_RECLASSIFICATION_UNDO"
    [] OTHER        -> "OTHER"

----------------------------------------------------------------------------
\* callGeminiBatch on its own, with the timer and the service as processes.
\* The service may answer the request, fail it, or never answer; having
\* answered with the response head it may deliver the body or never do so.

\* const timeoutId = setTimeout(() => controller.abort(), TIMEOUT_MS); fetch(...)
CallStart ==
  /\ callPc = "start"
  /\ callTimer' = "armed"
  /\ callPc' = "fetch"
  /\ UNCHANGED <<callModel, callPayload, callReply, callOutcome>>

\* await fetch(...) resolves with the response head; finally: clearTimeout;
\* then await res.json() starts
FetchResolves ==
  /\ callPc = "fetch" /\ callTimer = "armed"
  /\ \E r \in {k \in 1..Len(Replies) : Replies[k].fetch = "resolved"} :
       callReply' = r
  /\ callTimer' = "cleared"
  /\ callPc' = "json"
  /\ UNCHANGED <<callModel, callPayload, callOutcome>>

\* await fetch(...) rejects with a network error; finally: clearTimeout
FetchRejects ==
  /\ callPc = "fetch" /\ callTimer = "armed"
  /\ \E r \in {k \in 1..Len(Replies) : Replies[k].fetch = "rejected"} :
       /\ callReply' = r
       /\ callOutcome' = callGeminiBatch(Replies[r])
  /\ callTimer' = "cleared"
  /\ callPc' = "done"
  /\ UNCHANGED <<callModel, callPayload>>

\* the timer fires while fetch is pending: controller.abort() cancels the
\* request and fetch rejects with an AbortError
TimerFires ==
  /\ callPc = "fetch" /\ callTimer = "armed"
  /\ \E r \in {k \in 1..Len(Replies) : Replies[k].fetch = "aborted"} :
       /\ callReply' = r
       /\ callOutcome' = callGeminiBatch(Replies[r])
  /\ callTimer' = "fired"
  /\ callPc' = "done"
  /\ UNCHANGED <<callModel, callPayload>>

\* await res.json() resolves: the body has arrived; the rest of the function
BodyArrives ==
  /\ callPc = "json"
  /\ callOutcome' = callGeminiBatch(Replies[callReply])
  /\ callPc' = "done"
  /\ UNCHANGED <<callModel, callPayload, callTimer, callReply>>

InitCall ==
  /\ ScopeIdle /\ PayIdle /\ SubIdle /\ ExIdle /\ MutIdle
  /\ callPc = "start"
  /\ callModel \in Models
  /\ callPayload \in {es \in ExpenseLists(MaxRunLen) :
                        Len(es) > 0 /\ \A k \in 1..Len(es) : es[k].date \in RunDates}
  /\ callTimer = "none" /\ callReply = 0 /\ callOutcome = NotSettled
  /\ RunIdle
  /\ CbIdle
  /\ StoreIdle

NextCall ==
  \/ CallStart /\ UNCHANGED <<cbVars, runVars, stVars,
                   scopeVars, payVars, subVars, exVars, mutVars>>
  \/ FetchResolves /\ UNCHANGED <<cbVars, runVars, stVars,
                   scopeVars, payVars, subVars, exVars, mutVars>>
  \/ FetchRejects /\ UNCHANGED <<cbVars, runVars, stVars,
                   scopeVars, payVars, subVars, exVars, mutVars>>
  \/ TimerFires /\ UNCHANGED <<cbVars, runVars, stVars,
                   scopeVars, payVars, subVars, exVars, mutVars>>
  \/ BodyArrives /\ UNCHANGED <<cbVars, runVars, stVars,
                   scopeVars, payVars, subVars, exVars, mutVars>>

\* The function's own steps and an armed timer are executed by the runtime;
\* nothing obliges the service to answer or to deliver the body.
SpecCall ==
  /\ InitCall /\ [][NextCall]_vars
  /\ WF_vars(CallStart /\ UNCHANGED <<cbVars, runVars, stVars,
                   scopeVars, payVars, subVars, exVars, mutVars>>)
  /\ WF_vars(TimerFires /\ UNCHANGED <<cbVars, runVars, stVars,
                   scopeVars, payVars, subVars, exVars, mutVars>>)

\* C19: every attempt terminates: a call that has sent its request eventually
\* returns or throws, whatever the service does (also when it never answers
\* and when it stops while delivering the body); and when the timer has fired
\* the call is over and has thrown the 'Batch timed out' error.
C19_AttemptTerminates ==
  /\ (callPc = "fetch") ~> (callPc = "done")
  /\ [](callTimer = "fired" =>
          /\ callPc = "done"
          /\ ~callOutcome.ok
          /\ callOutcome.error = "Batch timed out after 15s. Try a smaller scope.")


----------------------------------------------------------------------------
\* getScopedExpenses(expenses, scope) called on its own.
\* Time is counted in hours; the UTC day of the call is ScopeToday.  The clock
\* is [hour, offNow, offThen]: the UTC hour of the day at the call, the local
\* zone's offset from UTC (in hours) at the call, and its offset `days` days
\* earlier (the two differ when a daylight-saving change lies in between).

ScopeToday == 5

Clocks ==
  { [hour |-> h, offNow |-> o[1], offThen |-> o[2]] :
      h \in {0, 12, 23},
      o \in {<<0, 0>>, <<1, 1>>, <<-5, -5>>, <<2, 1>>, <<1, 2>>} }

ScopeDates == {NoDate} \cup ((ScopeToday - 3)..ScopeToday)

\* all expense lists of length <= n over these dates, ids by position
ScopeLists(n) ==
  UNION { { [k \in 1..len |-> [id |-> IdOf(k), date |-> ds[k]]] :
              ds \in [1..len -> ScopeDates] } : len \in 0..n }

Scopes == {AllScope, DayScope(1), DayScope(2)}

\* typeof scope === 'number' ? scope : (scope === '90d' ? 90 : 30)
DaysOfScope(scope) ==
  IF scope.kind = "number" THEN scope.days ELSE IF scope.kind = "90d" THEN 90 ELSE 30

\* const cutoff = new Date(); cutoff.setDate(cutoff.getDate() - days);
\* cutoff.toISOString().split('T')[0]: setDate moves the local wall-clock time
\* back by whole days, toISOString prints the UTC date of the instant reached
CutoffDay(now, days) ==
  LET wallNow == ScopeToday * 24 + now.hour + now.offNow
      wallCut == wallNow - 24 * days
      utcCut  == wallCut - now.offThen
  IN  utcCut \div 24

getScopedExpenses(es, scope, now) ==
  IF scope.kind = "all" THEN es
  ELSE SelectSeq(es, LAMBDA e : e.date >= CutoffDay(now, DaysOfScope(scope)))

GsCall ==
  /\ gsPc = "call"
  /\ gsResult' = getScopedExpenses(gsExpenses, gsScope, gsNow)
  /\ gsPc' = "returned"
  /\ UNCHANGED <<gsExpenses, gsScope, gsNow>>

InitScope ==
  /\ gsExpenses \in ScopeLists(MaxLen)
  /\ gsScope \in Scopes
  /\ gsNow \in Clocks
  /\ gsResult = <<>>
  /\ gsPc = "call"
  /\ RunIdle /\ CbIdle /\ StoreIdle /\ CallIdle
  /\ PayIdle /\ SubIdle /\ ExIdle /\ MutIdle

NextScope ==
  GsCall /\ UNCHANGED <<cbVars, runVars, stVars, callVars, payVars, subVars,
                        exVars, mutVars>>

SpecScope == InitScope /\ [][NextScope]_vars

\* C21: scope selection: after getScopedExpenses has returned, for scope "all"
\* the result is the list it was given; for a number of days N the result is,
\* in input order, exactly the given expenses dated on or after the day N days
\* before today (the UTC date of the call, which is what the application's
\* today() is); the list it was given is as it was passed in.
C21_ScopeSelection ==
  gsPc = "returned" =>
    /\ gsScope.kind = "all" => gsResult = gsExpenses
    /\ gsScope.kind = "number" =>
         gsResult = SelectSeq(gsExpenses,
                              LAMBDA e : e.date # NoDate /\ e.date >= ScopeToday - gsScope.days)
    /\ \A k \in 1..Len(gsExpenses) : gsExpenses[k].id = IdOf(k)


----------------------------------------------------------------------------
\* The request bodies of runReclassification.  An expense here has all its
\* properties; the body of a request is the prompt, which is a function of the
\* batch payload, the categories, the merchant frequency table and the mode
\* (the default subcategory lists in it are a constant of the build).

MaxPayLen == 2       \* longest expense list of the two runs

PublicParts ==
  { [date |-> d, details |-> t, subcategory |-> s] :
      d \in {1, FarDay}, t \in {"uber", "Uber ", Undefined}, s \in {Undefined, "Bus"} }

\* the private part of the first run's expenses
FirstPrivate == [paidBy |-> "Me", original_prompt |-> Undefined, createdAt |-> "t0"]

\* the private parts of the second run's expenses: each differs from the first
\* run's in at most one property
PrivateParts ==
  { FirstPrivate,
    [FirstPrivate EXCEPT !.paidBy = "Ann"],
    [FirstPrivate EXCEPT !.original_prompt = "paid ann for the cab"],
    [FirstPrivate EXCEPT !.createdAt = "t1"] }

\* a record of string properties, with its date
WithDate(strs, d) ==
  [f \in DOMAIN strs \cup {"date"} |-> IF f = "date" THEN d ELSE strs[f]]

\* the k-th expense of a list, from its public and its private part
FullExpense(k, pub, priv) ==
  WithDate(JsonRecord([id |-> IdOf(k), amount |-> "10", category |-> "Other",
                    subcategory |-> pub.subcategory, details |-> pub.details,
                    paidBy |-> priv.paidBy, original_prompt |-> priv.original_prompt,
                    createdAt |-> priv.createdAt]),
        pub.date)

\* (e.details ?? '').trim().toLowerCase()
MerchantKey(e) ==
  LET d == Coalesce(Prop(e, "details"), "") IN
    CASE d = "Uber " -> "uber"
      [] OTHER       -> d

\* the loop of buildMerchantFrequency: the keys in order of first occurrence,
\* each with its count
RECURSIVE CountKeys(_, _)
CountKeys(es, freq) ==
  IF es = <<>> THEN freq
  ELSE LET key == MerchantKey(Head(es)) IN
         IF key = "" THEN CountKeys(Tail(es), freq)
         ELSE IF \E k \in 1..Len(freq) : freq[k].merchant = key
         THEN CountKeys(Tail(es),
                [k \in 1..Len(freq) |->
                   IF freq[k].merchant = key
                   THEN [freq[k] EXCEPT !.count = @ + 1] ELSE freq[k]])
         ELSE CountKeys(Tail(es), Append(freq, [merchant |-> key, count |-> 1]))

\* .sort((a, b) => b[1] - a[1]): stable, descending by count
RECURSIVE InsertByCount(_, _)
InsertByCount(sorted, m) ==
  IF sorted = <<>> THEN <<m>>
  ELSE IF sorted[Len(sorted)].count >= m.count
       THEN Append(sorted, m)
       ELSE Append(InsertByCount(SubSeq(sorted, 1, Len(sorted) - 1), m),
                   sorted[Len(sorted)])

RECURSIVE SortByCount(_)
SortByCount(ms) ==
  IF ms = <<>> THEN <<>>
  ELSE InsertByCount(SortByCount(SubSeq(ms, 1, Len(ms) - 1)), ms[Len(ms)])

MERCHANT_TOP == 20

buildMerchantFrequency(es) ==
  LET sorted == SortByCount(CountKeys(es, <<>>)) IN
    SubSeq(sorted, 1, IF Len(sorted) > MERCHANT_TOP THEN MERCHANT_TOP ELSE Len(sorted))

\* a payload entry that also carries paidBy
BatchPayloadEntryWithPaidBy(e) ==
  WithDate(JsonRecord([id |-> Prop(e, "id"),
                    amount |-> Prop(e, "amount"), category |-> Prop(e, "category"),
                    subcategory |-> Coalesce(Prop(e, "subcategory"), Null),
                    details |-> Prop(e, "details"), paidBy |-> Prop(e, "paidBy")]),
        e.date)

\* ({ id, date, amount, category, subcategory, details }) =>
\*   ({ id, date, amount, category, subcategory: subcategory ?? null, details }),
\* as JSON.stringify writes it
BatchPayloadEntry(e) ==
  WithDate(JsonRecord([id |-> Prop(e, "id"),
                    amount |-> Prop(e, "amount"), category |-> Prop(e, "category"),
                    subcategory |-> Coalesce(Prop(e, "subcategory"), Null),
                    details |-> Prop(e, "details")]),
        e.date)

\* the prompt built for one batch
RequestBody(batch, merchantFreq, mode) ==
  [mode |-> IF mode = "deep" THEN "DEEP" ELSE "CONSERVATIVE",
   categories |-> CATEGORIES,
   merchantFreq |-> merchantFreq,
   payload |-> [k \in 1..Len(batch) |-> BatchPayloadEntry(batch[k])]]

\* the bodies a run sends: per batch the body of the primary attempt and the
\* body of the fallback attempt
RequestBodies(es, mode) ==
  LET bs == chunkByDays(es, BATCH_DAYS)
      mf == buildMerchantFrequency(es)
  IN  [b \in 1..Len(bs) |->
         [primary |-> RequestBody(bs[b], mf, mode),
          fallback |-> RequestBody(bs[b], mf, mode)]]

\* both runs send their requests
PaySend ==
  /\ payPc = "call"
  /\ payBodiesA' = RequestBodies(payA, payMode)
  /\ payBodiesB' = RequestBodies(payB, payMode)
  /\ payPc' = "sent"
  /\ UNCHANGED <<payA, payB, payMode>>

\* two runs whose expenses differ only in paidBy, original_prompt, createdAt
InitPay ==
  /\ \E len \in 1..MaxPayLen :
       \E pub \in [1..len -> PublicParts], priv \in [1..len -> PrivateParts] :
         /\ payA = [k \in 1..len |-> FullExpense(k, pub[k], FirstPrivate)]
         /\ payB = [k \in 1..len |-> FullExpense(k, pub[k], priv[k])]
  /\ payMode \in {"conservative", "deep"}
  /\ payBodiesA = <<>> /\ payBodiesB = <<>>
  /\ payPc = "call"
  /\ RunIdle /\ CbIdle /\ StoreIdle /\ CallIdle
  /\ ScopeIdle /\ SubIdle /\ ExIdle /\ MutIdle

NextPay ==
  PaySend /\ UNCHANGED <<cbVars, runVars, stVars, callVars, scopeVars, subVars,
                         exVars, mutVars>>

SpecPay == InitPay /\ [][NextPay]_vars

PayloadFields == {"id", "date", "amount", "category", "subcategory", "details"}

\* C22: payload confidentiality: in every request body a run has sent, each
\* payload entry has no property other than id, date, amount, category,
\* subcategory and details; and two runs whose expenses differ only in
\* original_prompt, paidBy or createdAt have sent the same bodies, batch by
\* batch, on the primary and on the fallback attempt.
C22_PayloadConfidentiality ==
  payPc = "sent" =>
    /\ \A b \in 1..Len(payBodiesB) :
         \A k \in 1..Len(payBodiesB[b].primary.payload) :
           /\ DOMAIN payBodiesB[b].primary.payload[k] \subseteq PayloadFields
           /\ DOMAIN payBodiesB[b].fallback.payload[k] \subseteq PayloadFields
    /\ payBodiesA = payBodiesB

C22_Witness ==
  /\ payPc = "sent"
  /\ Len(payB) = 2
  /\ payB[1].paidBy = "Ann" /\ payA[1].paidBy = "Me"
  /\ Prop(payB[2], "original_prompt") = "paid ann for the cab"
  /\ "original_prompt" \notin DOMAIN payA[2]
  /\ Len(payBodiesB) = 2
  /\ payBodiesB[1].primary.merchantFreq = <<[merchant |-> "uber", count |-> 2]>>


----------------------------------------------------------------------------
\* The subcategory map (storage.js).  The persisted map is a function from the
\* parent categories that are keys of it to their lists of names.

MaxSubOps == 2       \* addApprovedSubcategory calls per behaviour

SUBCATEGORY_CAP == 8

SubParents == {"Food", "Transport"}

SubNames == <<"n1", "n2", "n3", "n4", "n5", "n6", "n7", "n8", "n9", "n10">>

\* the persisted lists a category starts with: empty, two names, one below
\* the cap, at the cap
SubLists ==
  { <<>>, <<"n2", "n1">>, SubSeq(SubNames, 1, SUBCATEGORY_CAP - 1),
    SubSeq(SubNames, 1, SUBCATEGORY_CAP) }

\* the names given to addApprovedSubcategory
SubArgs == {"n1", "n8", "n9", "n10"}

Includes(list, x) == \E k \in 1..Len(list) : list[k] = x

\* list.slice(0, n)
SliceFront(list, n) == SubSeq(list, 1, IF Len(list) > n THEN n ELSE Len(list))

\* a cap that keeps the newest names
addApprovedSubcategoryNewestKept(map, parentCategory, name) ==
  LET existing == IF parentCategory \in DOMAIN map THEN map[parentCategory] ELSE <<>>
      grown    == Append(existing, name)
  IN  IF ~Includes(existing, name)
      THEN [c \in DOMAIN map \cup {parentCategory} |->
              IF c = parentCategory
              THEN SubSeq(grown, IF Len(grown) > SUBCATEGORY_CAP
                                 THEN Len(grown) - SUBCATEGORY_CAP + 1 ELSE 1,
                          Len(grown))
              ELSE map[c]]
      ELSE map

\* the map addApprovedSubcategory persists and returns, from the map it loaded
addApprovedSubcategory(map, parentCategory, name) ==
  LET existing == IF parentCategory \in DOMAIN map THEN map[parentCategory] ELSE <<>>
  IN  IF ~Includes(existing, name)
      THEN [c \in DOMAIN map \cup {parentCategory} |->
              IF c = parentCategory
              THEN SliceFront(Append(existing, name), SUBCATEGORY_CAP)
              ELSE map[c]]
      ELSE map

AddApprovedSubcategoryCall ==
  /\ Len(subOps) < MaxSubOps
  /\ \E parentCategory \in SubParents, name \in SubArgs :
       /\ subcategories' = addApprovedSubcategory(subcategories, parentCategory, name)
       /\ subOps' = Append(subOps, [parentCategory |-> parentCategory, name |-> name])

InitSub ==
  /\ \E keys \in SUBSET SubParents : subcategories \in [keys -> SubLists]
  /\ subOps = <<>>
  /\ RunIdle /\ CbIdle /\ StoreIdle /\ CallIdle
  /\ ScopeIdle /\ PayIdle /\ ExIdle /\ MutIdle

NextSub ==
  AddApprovedSubcategoryCall
    /\ UNCHANGED <<cbVars, runVars, stVars, callVars, scopeVars, payVars,
                   exVars, mutVars>>

SpecSub == InitSub /\ [][NextSub]_vars

IsPrefixOf(a, b) == Len(a) <= Len(b) /\ SubSeq(b, 1, Len(a)) = a

NoDuplicates(list) ==
  \A j, k \in 1..Len(list) : list[j] = list[k] => j = k

----------------------------------------------------------------------------
\* POST /api/ai/extract (backend/server.js).

\* req.body.text
ExTexts == {Undefined, "", "  ", "spent 25 on lunch"}

\* text?.trim()
TrimmedText(t) == IF t = Undefined \/ t = "  " THEN "" ELSE t

\* process.env.GOOGLE_API_KEY || process.env.GEMINI_API_KEY
ExApiKey(google, gemini) == IF google # "" THEN google ELSE gemini

\* what happens to ai.models.generateContent and what JSON.parse(raw) makes of
\* its text: call is "throws" or "returns"; parses says whether JSON.parse
\* succeeds; kind is the type of the parsed value; amount is the amount
\* property of a parsed object as written in the JSON text
ExResult(call, parses, kind, category, amount) ==
  [call |-> call, parses |-> parses, kind |-> kind, category |-> category,
   amount |-> amount]

ExAmounts == {Undefined, Null, "abc", "0", "-3", "25", "12.5 usd", "$25"}

ExReplies ==
  { ExResult("throws", FALSE, "none", Undefined, Undefined),
    ExResult("returns", FALSE, "none", Undefined, Undefined),
    ExResult("returns", TRUE, "null", Undefined, Undefined) }
  \cup { ExResult("returns", TRUE, "object", c, a) :
           c \in {"Food", "Groceries"}, a \in ExAmounts }

\* parseFloat(x) || 0, in hundredths: parseFloat reads the longest numeric
\* prefix and gives NaN when there is none; NaN || 0 and 0 || 0 are 0
ParseFloatOrZero(x) ==
  CASE x = "25"       -> 2500
    [] x = "-3"       -> -300
    [] x = "12.5 usd" -> 1250
    [] OTHER          -> 0

\* the synchronous part of the handler, up to the model call
ExBegin ==
  /\ exPc = "request"
  /\ IF TrimmedText(exText) = ""
     THEN exStatus' = 400 /\ exPc' = "answered"
     ELSE IF exKey = ""
     THEN exStatus' = 400 /\ exPc' = "answered"
     ELSE exStatus' = exStatus /\ exPc' = "await"
  /\ UNCHANGED <<exText, exKey, exReply>>

\* the handler from the point where the model call settles
ExStatusOf(r) ==
  IF r.call = "throws" THEN 500                 \* outer catch
  ELSE IF ~r.parses THEN 500                    \* catch of JSON.parse
  ELSE IF r.kind = "null" THEN 500              \* extracted.category throws
  ELSE IF ParseFloatOrZero(r.amount) <= 0 THEN 400
  ELSE 200

ExSettle ==
  /\ exPc = "await"
  /\ exStatus' = ExStatusOf(exReply)
  /\ exPc' = "answered"
  /\ UNCHANGED <<exText, exKey, exReply>>

InitEx ==
  /\ exText \in ExTexts
  /\ \E google \in {"", "g-key"}, gemini \in {"", "m-key"} :
       exKey = ExApiKey(google, gemini)
  /\ exReply \in ExReplies
  /\ exPc = "request"
  /\ exStatus = 0
  /\ RunIdle /\ CbIdle /\ StoreIdle /\ CallIdle
  /\ ScopeIdle /\ PayIdle /\ SubIdle /\ MutIdle

NextEx ==
  \/ ExBegin /\ UNCHANGED <<cbVars, runVars, stVars, callVars, scopeVars, payVars,
                            subVars, mutVars>>
  \/ ExSettle /\ UNCHANGED <<cbVars, runVars, stVars, callVars, scopeVars, payVars,
                             subVars, mutVars>>

SpecEx == InitEx /\ [][NextEx]_vars

\* the model returned a JSON object from which no positive amount can be read
NoValidAmount(r) ==
  /\ r.call = "returns" /\ r.parses /\ r.kind = "object"
  /\ r.amount \in {Undefined, Null, "abc", "0", "-3", "$25"}

\* C24: status codes of the single-extraction endpoint: a request with a text
\* is answered 400 when no valid amount can be extracted (missing, unparseable
\* or not positive), 500 when the model output is no parseable JSON, and 500
\* when no API credential is configured.
C24_ExtractStatusCodes ==
  (exPc = "answered" /\ TrimmedText(exText) # "") =>
    /\ (exKey = "" => exStatus = 500)
    /\ (exKey # "" /\ NoValidAmount(exReply) => exStatus = 400)
    /\ (exKey # "" /\ exReply.call = "returns" /\ ~exReply.parses => exStatus = 500)


----------------------------------------------------------------------------
\* The frame of apply and undo (on the steps that persist)

UndoWrites == opPc = "undo:persist" /\ opPc' = "undo:audit"

IdsOf(list) == {list[k].id : k \in 1..Len(list)}

SameIdsInPlace(before, after) ==
  /\ Len(after) = Len(before)
  /\ \A k \in 1..Len(before) : after[k].id = before[k].id

----------------------------------------------------------------------------
\* An apply, then edits of the store, then the undo of that apply

MaxEdits == 2        \* storage calls between the apply and its undo

Applied == Len(ops) > 0 /\ ops[1] = "apply"
Undone  == \E k \in 1..Len(ops) : ops[k] = "undo"
EditAllowed == Applied /\ ~Undone /\ opPc = "idle" /\ Len(ops) <= MaxEdits

NextUndo ==
  \/ (ops = <<>> /\ ApplyBegin)
       /\ UNCHANGED <<cbVars, runVars, callVars, scopeVars, payVars, subVars,
                      exVars, mutVars>>
  \/ ApplyPersist
       /\ UNCHANGED <<cbVars, runVars, callVars, scopeVars, payVars, subVars,
                      exVars, mutVars>>
  \/ ApplyAudit
       /\ UNCHANGED <<cbVars, runVars, callVars, scopeVars, payVars, subVars,
                      exVars, mutVars>>
  \/ (EditAllowed /\ UpdateExpenseCall)
       /\ UNCHANGED <<cbVars, runVars, callVars, scopeVars, payVars, subVars,
                      exVars, mutVars>>
  \/ (EditAllowed /\ DeleteExpenseCall)
       /\ UNCHANGED <<cbVars, runVars, callVars, scopeVars, payVars, subVars,
                      exVars, mutVars>>
  \/ (EditAllowed /\ AddExpenseCall)
       /\ UNCHANGED <<cbVars, runVars, callVars, scopeVars, payVars, subVars,
                      exVars, mutVars>>
  \/ (Applied /\ ~Undone /\ UndoBegin)
       /\ UNCHANGED <<cbVars, runVars, callVars, scopeVars, payVars, subVars,
                      exVars, mutVars>>
  \/ UndoPersist
       /\ UNCHANGED <<cbVars, runVars, callVars, scopeVars, payVars, subVars,
                      exVars, mutVars>>
  \/ UndoAudit
       /\ UNCHANGED <<cbVars, runVars, callVars, scopeVars, payVars, subVars,
                      exVars, mutVars>>

SpecUndo == InitStore /\ [][NextUndo]_vars

\* the record the list had under this id when the apply loaded it
PreImage(id) ==
  preApply[CHOOSE j \in 1..Len(preApply) : preApply[j].id = id]

----------------------------------------------------------------------------
\* The order of the events of a run (checked under Spec)

\* whether event cur may directly follow event prev, where before is the
\* number of the batch of the event ahead of prev (for the two waits, which
\* carry no batch number)
MayFollow(before, prev, cur) ==
  CASE prev.ev = "progress" /\ ~prev.retrying ->
         cur = Request(prev.current, model)
    [] prev.ev = "progress" /\ prev.retrying ->
         cur = Sleep(RETRY_DELAY_MS)
    [] prev.ev = "request" ->
         cur.ev = "response" /\ cur.current = prev.current /\ cur.model = prev.model
    [] prev.ev = "response" /\ prev.model = model /\ prev.reply = 0 ->
         cur = Progress(prev.current, Len(batches), TRUE)
    [] prev.ev = "response" /\ ~(prev.model = model /\ prev.reply = 0) ->
         cur = Sleep(BATCH_DELAY_MS) /\ prev.current < Len(batches)
    [] prev.ev = "sleep" /\ prev.ms = RETRY_DELAY_MS ->
         cur = Request(before, MODEL_FALLBACK(model))
    [] prev.ev = "sleep" /\ prev.ms = BATCH_DELAY_MS ->
         cur = Progress(before + 1, Len(batches), FALSE)

NonRetryProgress == SelectSeq(trace, LAMBDA e : e.ev = "progress" /\ ~e.retrying)

\* C27: per-batch event order: the events of a run come in the order pause
\* (before every batch but the first, also after a skipped batch), progress
\* (current, total, not retrying), primary request and its answer, and, only
\* after a failed primary answer, progress (retrying), wait, fallback request
\* and its answer; and when a run that passed its two entry checks has ended,
\* its non-retry progress events are those of current = 1, 2, .., total, in
\* that order, each once.
C27_PerBatchEventOrder ==
  /\ Len(trace) > 0 => trace[1] = Progress(1, Len(batches), FALSE)
  /\ \A n \in 2..Len(trace) :
       MayFollow(IF n > 2 THEN trace[n - 2].current ELSE 0, trace[n - 1], trace[n])
  /\ (pc = "done" /\ PreconditionError(expenses, apiKey) = "") =>
       NonRetryProgress = [b \in 1..Len(batches) |-> Progress(b, Len(batches), FALSE)]


----------------------------------------------------------------------------
\* The order of the writes of apply and undo (checked under SpecStore)

ApplyLogs == opPc = "apply:audit" /\ opPc' = "idle"
UndoLogs  == opPc = "undo:audit" /\ opPc' = "idle"

\* the log after the step is the log before it with one entry of this type
\* put in front
OneEntryAdded(type) ==
  /\ Len(auditLog') = Len(auditLog) + 1
  /\ auditLog'[1].type = type
  /\ SubSeq(auditLog', 2, Len(auditLog')) = auditLog

\* C28: write order of apply and undo: an applyReclassification that returns
\* has written the expense list once and after that one audit entry of type
\* AI_RECLASSIFICATION, an undoReclassification that returns has written the
\* expense list once and after that one audit entry of type
\* AI_RECLASSIFICATION_UNDO; the audit log is written by no other step, so
\* never before and never without the write of the list.
C28_WriteOrder ==
  [][ /\ auditLog' # auditLog => (ApplyLogs \/ UndoLogs)
      /\ ApplyLogs => (OneEntryAdded("AI_RECLASSIFICATION") /\ store' = store
                       /\ ops' = Append(ops, "apply"))
      /\ UndoLogs => (OneEntryAdded("AI_RECLASSIFICATION_UNDO") /\ store' = store
                      /\ ops' = Append(ops, "undo"))
      /\ (opPc' = "apply:audit" /\ opPc # opPc') =>
           (ApplyWrites /\ store' = Json(opNext) /\ auditLog' = auditLog)
      /\ (opPc' = "undo:audit" /\ opPc # opPc') =>
           (UndoWrites /\ store' = Json(opNext) /\ auditLog' = auditLog)
      /\ (opPc = "idle" /\ opPc' \in {"apply:persist", "undo:persist"}) =>
           (store' = store /\ auditLog' = auditLog)
      /\ (opPc \in {"apply:persist", "undo:persist"}) =>
           (ApplyWrites \/ UndoWrites)
      /\ (ops' # ops /\ ops'[Len(ops')] \in {"apply", "undo"}) =>
           (ApplyLogs \/ UndoLogs) ]_vars

\* an apply that changed the list and its undo have both returned
C28_Witness ==
  /\ opPc = "idle"
  /\ ops = <<"apply", "undo">>
  /\ Len(auditLog) = 2
  /\ auditLog[1].type = "AI_RECLASSIFICATION_UNDO"
  /\ auditLog[2].type = "AI_RECLASSIFICATION"
  /\ auditLog[2].count = 2
  /\ postApply # preApply
  /\ store = preApply


----------------------------------------------------------------------------
\* The effects of a run outside itself (checked under Spec)

\* C29: a classification run is side-effect free on stored data: no step of
\* runReclassification, whatever the classifier answers, writes the persisted
\* expense list, the subcategory map or the audit log, and none changes or
\* reorders the expense list the run was given.
C29_RunIsSideEffectFree ==
  [][ /\ store' = store
      /\ subcategories' = subcategories
      /\ auditLog' = auditLog
      /\ expenses' = expenses ]_vars

\* a run over a list that is not in date order has resolved with changes from
\* two batches
C29_Witness ==
  /\ pc = "done"
  /\ result.state = "resolved"
  /\ Len(result.changes) > 1
  /\ Len(batches) = 2
  /\ Len(expenses) = 2
  /\ expenses[1].date > expenses[2].date
  /\ batches[1][1] = expenses[2]
  /\ store = <<>> /\ auditLog = <<>> /\ subcategories = <<>>


----------------------------------------------------------------------------
\* A storage mutation that overlaps an applyReclassification or an
\* undoReclassification.  Every storage function loads the whole list, awaits,
\* and persists the whole list; Preferences.get and Preferences.set are the
\* atomic steps, and the steps of two calls in progress may interleave in any
\* order that keeps each call's own order.

\* the other call: addExpense, updateExpense, deleteExpense or addAuditEvent
Mutation(op, id, data) == [op |-> op, id |-> id, data |-> data]

Mutations ==
  { Mutation("add", "", d) : d \in AddDatas }
  \cup { Mutation("update", "e1", u) : u \in Updates }
  \cup { Mutation("delete", id, <<>>) : id \in {"e1", "e3"} }
  \cup { Mutation("audit", "", <<>>) }

OtherEvent == AuditEvent("MANUAL_EDIT", Undefined, Undefined, 0, Undefined)

\* the list the mutation persists, from the list it loaded
MutationOf(m, list) ==
  CASE m.op = "add" ->
         Json(<<NewExpense(RandomUUID(1), m.data)>> \o list)
    [] m.op = "update" ->
         IF HasId(list, "id", m.id)
         THEN LET idx == CHOOSE k \in 1..Len(list) :
                           list[k].id = m.id /\ \A j \in 1..(k - 1) : list[j].id # m.id
              IN  Json([list EXCEPT ![idx] = UpdatedRecord(list[idx], m.id, m.data)])
         ELSE list
    [] m.op = "delete" ->
         Json(SelectSeq(list, LAMBDA e : e.id # m.id))
    [] OTHER -> list

\* const expenses = await load() / const log = await loadAuditLog()
MutLoad ==
  /\ mutPc = "called"
  /\ mutLoaded' = IF mutKind.op = "audit" THEN auditLog ELSE store
  /\ mutPc' = "loaded"
  /\ UNCHANGED <<mutKind, opLog, stVars>>

\* await persist(...) / await persistAuditLog(...); updateExpense throws
\* before it when no record has the id
MutPersist ==
  /\ mutPc = "loaded"
  /\ IF mutKind.op = "audit"
     THEN auditLog' = AddAuditEvent(mutLoaded, OtherEvent) /\ UNCHANGED store
     ELSE IF mutKind.op = "update" /\ ~HasId(mutLoaded, "id", mutKind.id)
     THEN UNCHANGED <<store, auditLog>>
     ELSE store' = MutationOf(mutKind, mutLoaded) /\ UNCHANGED auditLog
  /\ mutPc' = "done"
  /\ UNCHANGED <<mutKind, mutLoaded, opLog, opPc, opChanges, opMeta, opSnapshot,
                 opNext, held, ops, applied, preApply, postApply>>

\* applyReclassification: const expenses = await load(), snapshot, merge
OvApplyLoad ==
  /\ held = NoReturn
  /\ ApplyBegin
  /\ UNCHANGED mutVars

\* undoReclassification(snapshot): const expenses = await load(), restore
OvUndoLoad ==
  /\ UndoBegin
  /\ UNCHANGED mutVars

\* await persist(updated) / await persist(restored)
OvPersist ==
  /\ opPc \in {"apply:persist", "undo:persist"}
  /\ store' = Json(opNext)
  /\ opPc' = IF opPc = "apply:persist" THEN "apply:audit" ELSE "undo:audit"
  /\ UNCHANGED <<auditLog, opChanges, opMeta, opSnapshot, opNext, held, ops,
                 applied, preApply, postApply, mutVars>>

\* addAuditEvent: const log = await loadAuditLog()
OvLogLoad ==
  /\ opPc \in {"apply:audit", "undo:audit"}
  /\ opLog' = auditLog
  /\ opPc' = IF opPc = "apply:audit" THEN "apply:log" ELSE "undo:log"
  /\ UNCHANGED <<store, auditLog, opChanges, opMeta, opSnapshot, opNext, held,
                 ops, applied, preApply, postApply, mutPc, mutKind, mutLoaded>>

\* addAuditEvent: await persistAuditLog(log.slice(0, 100)); the call returns
OvLogPersist ==
  /\ opPc \in {"apply:log", "undo:log"}
  /\ IF opPc = "apply:log"
     THEN /\ auditLog' = AddAuditEvent(opLog,
               AuditEvent("AI_RECLASSIFICATION",
                          Coalesce(opMeta.mode, "conservative"),
                          Coalesce(opMeta.scope, "unknown"),
                          Len(opChanges),
                          Coalesce(opMeta.subcategoriesCreated, "0")))
          /\ held' = [snapshot |-> opSnapshot, updatedCount |-> Len(opChanges)]
          /\ ops' = Append(ops, "apply")
     ELSE /\ auditLog' = AddAuditEvent(opLog,
               AuditEvent("AI_RECLASSIFICATION_UNDO", Undefined, Undefined,
                          Len(opSnapshot), Undefined))
          /\ held' = held
          /\ ops' = Append(ops, "undo")
  /\ opPc' = "done"
  /\ UNCHANGED <<store, opChanges, opMeta, opSnapshot, opNext, applied,
                 preApply, postApply, mutVars>>

\* the snapshot an earlier apply returned, for the undo
EarlierSnapshot == <<[StoredRecords[1] EXCEPT !.category = "Utilities"]>>

\* both calls are made; preApply is the list persisted at that moment
InitOverlap ==
  /\ store \in Stores(MaxStore)
  /\ preApply = store
  /\ auditLog = <<>>
  /\ opPc = "idle"
  /\ opChanges = <<>> /\ opMeta = <<>> /\ opSnapshot = <<>> /\ opNext = <<>>
  /\ held \in {NoReturn, [snapshot |-> EarlierSnapshot, updatedCount |-> 1]}
  /\ ops = <<>> /\ applied = {} /\ postApply = <<>>
  /\ mutPc = "called"
  /\ mutKind \in Mutations
  /\ mutLoaded = <<>> /\ opLog = <<>>
  /\ RunIdle /\ CbIdle /\ CallIdle
  /\ ScopeIdle /\ PayIdle /\ SubIdle /\ ExIdle

NextOverlap ==
  \/ OvApplyLoad /\ UNCHANGED <<cbVars, runVars, callVars, scopeVars, payVars,
                                subVars, exVars>>
  \/ OvUndoLoad /\ UNCHANGED <<cbVars, runVars, callVars, scopeVars, payVars,
                               subVars, exVars>>
  \/ OvPersist /\ UNCHANGED <<cbVars, runVars, callVars, scopeVars, payVars,
                              subVars, exVars>>
  \/ OvLogLoad /\ UNCHANGED <<cbVars, runVars, callVars, scopeVars, payVars,
                              subVars, exVars>>
  \/ OvLogPersist /\ UNCHANGED <<cbVars, runVars, callVars, scopeVars, payVars,
                                 subVars, exVars>>
  \/ MutLoad /\ UNCHANGED <<cbVars, runVars, callVars, scopeVars, payVars,
                            subVars, exVars>>
  \/ MutPersist /\ UNCHANGED <<cbVars, runVars, callVars, scopeVars, payVars,
                               subVars, exVars>>

SpecOverlap == InitOverlap /\ [][NextOverlap]_vars

\* the list the apply / the undo persists, from the list it loaded
LongOperationOf(list) ==
  IF ops[1] = "apply"
  THEN Json(UpdatedOf(list, opChanges))
  ELSE Json(RestoredOf(list, opSnapshot))

\* C30: no lost update between overlapping storage operations: when an
\* applyReclassification or undoReclassification and a storage mutation
\* (addExpense, updateExpense, deleteExpense, addAuditEvent) that overlapped
\* have both returned, the persisted list is what the two operations give one
\* after the other, in one of the two orders, and the audit log holds the
\* entries of both.
C30_NoLostUpdate ==
  (opPc = "done" /\ mutPc = "done") =>
    /\ store \in { MutationOf(mutKind, LongOperationOf(preApply)),
                   LongOperationOf(MutationOf(mutKind, preApply)) }
    /\ Len(auditLog) = IF mutKind.op = "audit" THEN 2 ELSE 1


====
